---- MODULE Spec2Model ----
(***************************************************************************)
(* Branch merge-status reconciliation of GitExtender                       *)
(* (src/src/contexts/RepositoryContext.tsx).                               *)
(*                                                                         *)
(* The source file holds two definitions of the context module: the first  *)
(* (lines 1-850) and the second (lines 852-1634).  The variable impl says  *)
(* which of the two is running; both are modelled.                         *)
(*                                                                         *)
(* One action is one provider response together with the continuation of   *)
(* the async function that awaited it, up to its next await or its return  *)
(* (including the Promise.all joins that the return completes).            *)
(*                                                                         *)
(* Strings whose characters matter (branch names) are sequences of         *)
(* one-character strings.  Missing values: "" for strings, 0 for dates.    *)
(***************************************************************************)
EXTENDS Integers, Sequences, FiniteSets, TLC

\* ------------------------------------------------------------------ bounds
\* largest ahead_by / behind_by a compare response reports
MaxAhead == 2
MaxBehind == 3
\* ahead_by reported by a reverse compare that found commits
MaxReverseAhead == 5

\* ------------------------------------------------------------- characters
UpperToLower ==
  ("A" :> "a") @@ ("B" :> "b") @@ ("C" :> "c") @@ ("D" :> "d") @@ ("E" :> "e") @@
  ("F" :> "f") @@ ("G" :> "g") @@ ("H" :> "h") @@ ("I" :> "i") @@ ("J" :> "j") @@
  ("K" :> "k") @@ ("L" :> "l") @@ ("M" :> "m") @@ ("N" :> "n") @@ ("O" :> "o") @@
  ("P" :> "p") @@ ("Q" :> "q") @@ ("R" :> "r") @@ ("S" :> "s") @@ ("T" :> "t") @@
  ("U" :> "u") @@ ("V" :> "v") @@ ("W" :> "w") @@ ("X" :> "x") @@ ("Y" :> "y") @@
  ("Z" :> "z")

\* String.prototype.toLowerCase
toLowerCase(s) ==
  [i \in DOMAIN s |-> IF s[i] \in DOMAIN UpperToLower THEN UpperToLower[s[i]] ELSE s[i]]

\* String.prototype.startsWith
startsWith(s, prefix) ==
  /\ Len(s) >= Len(prefix)
  /\ SubSeq(s, 1, Len(prefix)) = prefix

\* ------------------------------------------------------------ classifier
\* mutant: the exact-case check of Fix/ is made first and gives feature
getBranchTypeFixFirst(branchName) ==
  IF startsWith(branchName, <<"F","i","x","/">>) THEN "feature"
  ELSE LET lower == toLowerCase(branchName) IN
       IF \/ startsWith(lower, <<"f","e","a","t","u","r","e","/">>)
          \/ startsWith(lower, <<"f","e","a","t","/">>)
          \/ startsWith(lower, <<"f","e","a","t","u","r","e","s","/">>)
       THEN "feature"
       ELSE IF \/ startsWith(lower, <<"b","u","g","f","i","x","/">>)
               \/ startsWith(lower, <<"b","u","g","/">>)
               \/ startsWith(lower, <<"f","i","x","/">>)
       THEN "bugfix"
       ELSE IF startsWith(lower, <<"h","o","t","f","i","x","/">>) THEN "hotfix"
       ELSE "other"

\* mutant: only the exact-case prefixes are looked at
getBranchTypeExactCase(branchName) ==
  IF \/ startsWith(branchName, <<"f","e","a","t","u","r","e","/">>)
     \/ startsWith(branchName, <<"F","e","a","t","u","r","e","/">>)
     \/ startsWith(branchName, <<"F","E","A","T","U","R","E","/">>)
  THEN "feature"
  ELSE IF \/ startsWith(branchName, <<"b","u","g","f","i","x","/">>)
          \/ startsWith(branchName, <<"B","u","g","F","i","x","/">>)
          \/ startsWith(branchName, <<"b","u","g","F","i","x","/">>)
          \/ startsWith(branchName, <<"B","u","g","/">>)
          \/ startsWith(branchName, <<"F","i","x","/">>)
          \/ startsWith(branchName, <<"B","U","G","F","I","X","/">>)
  THEN "bugfix"
  ELSE IF \/ startsWith(branchName, <<"h","o","t","f","i","x","/">>)
          \/ startsWith(branchName, <<"H","o","t","F","i","x","/">>)
          \/ startsWith(branchName, <<"h","o","t","F","i","x","/">>)
          \/ startsWith(branchName, <<"H","O","T","F","I","X","/">>)
  THEN "hotfix"
  ELSE "other"

getBranchType(branchName) ==
  LET lowerName == toLowerCase(branchName) IN
  IF \/ startsWith(lowerName, <<"f","e","a","t","u","r","e","/">>)
     \/ startsWith(lowerName, <<"f","e","a","t","/">>)
     \/ startsWith(lowerName, <<"f","e","a","t","u","r","e","s","/">>)
     \/ startsWith(branchName, <<"F","e","a","t","u","r","e","/">>)
     \/ startsWith(branchName, <<"F","E","A","T","U","R","E","/">>)
  THEN "feature"
  ELSE IF \/ startsWith(lowerName, <<"b","u","g","f","i","x","/">>)
          \/ startsWith(lowerName, <<"b","u","g","/">>)
          \/ startsWith(lowerName, <<"f","i","x","/">>)
          \/ startsWith(branchName, <<"B","u","g","F","i","x","/">>)
          \/ startsWith(branchName, <<"b","u","g","F","i","x","/">>)
          \/ startsWith(branchName, <<"B","u","g","/">>)
          \/ startsWith(branchName, <<"F","i","x","/">>)
          \/ startsWith(branchName, <<"B","U","G","F","I","X","/">>)
  THEN "bugfix"
  ELSE IF \/ startsWith(lowerName, <<"h","o","t","f","i","x","/">>)
          \/ startsWith(branchName, <<"H","o","t","F","i","x","/">>)
          \/ startsWith(branchName, <<"h","o","t","F","i","x","/">>)
          \/ startsWith(branchName, <<"H","O","T","F","I","X","/">>)
  THEN "hotfix"
  ELSE "other"

\* ['feature', 'bugfix', 'hotfix'].includes(branchType)
Qualifying(branchName) == getBranchType(branchName) \in {"feature", "bugfix", "hotfix"}

\* mutant: the filter keeps every enumerated branch
KeepEveryBranch(s) == s

\* Array.prototype.filter with the qualifying predicate
RECURSIVE FilterQualifying(_)
FilterQualifying(s) ==
  IF s = <<>> THEN <<>>
  ELSE IF Qualifying(Head(s)) THEN <<Head(s)>> \o FilterQualifying(Tail(s))
       ELSE FilterQualifying(Tail(s))

\* ------------------------------------------------- the provider's repositories
FeatureLogin == <<"f","e","a","t","u","r","e","/","l","o","g","i","n">>
BugfixCrash  == <<"B","U","G","F","I","X","/","c","r","a","s","h","-","1","2","3">>
Release20    == <<"r","e","l","e","a","s","e","/","2",".","0">>
HotfixOops   == <<"h","o","t","f","i","x","/","o","o","p","s">>
DevelopmentBranch == <<"d","e","v","e","l","o","p","m","e","n","t">>
QualityBranch     == <<"q","u","a","l","i","t","y">>
ProductionBranch  == <<"p","r","o","d","u","c","t","i","o","n">>
\* the default development target of the signature, 'Development'
DefaultDevelopment == <<"D","e","v","e","l","o","p","m","e","n","t">>

\* data of GET /commits/{sha}: commit.committer.date, commit.author.date,
\* commit.author.name, author.login
CommitData(committerDate, authorDate, authorName, authorLogin) ==
  [committerDate |-> committerDate, authorDate |-> authorDate,
   authorName |-> authorName, authorLogin |-> authorLogin]

\* A repository as the provider serves it:
\*   pages   : the pages of GET /branches (branch names, in listing order)
\*   tip     : tip commit SHA of every branch that exists
\*   history : the SHAs on the first page of GET /commits?sha=<branch>
\*   commit  : data of GET /commits/<sha>

\* no branch at all: the first listing page is empty
EmptyRepo ==
  [pages   |-> << <<>> >>,
   tip     |-> <<>>,
   history |-> <<>>,
   commit  |-> <<>>]

\* one qualifying branch, all three targets exist; the branch tip is the tip of
\* development, is in the history page of quality and not in that of production
OneBranchRepo ==
  [pages   |-> << <<FeatureLogin, Release20, DevelopmentBranch, QualityBranch,
                    ProductionBranch>> >>,
   tip     |-> (FeatureLogin :> 1) @@ (Release20 :> 4) @@ (DevelopmentBranch :> 1)
               @@ (QualityBranch :> 2) @@ (ProductionBranch :> 3),
   history |-> (FeatureLogin :> {1}) @@ (Release20 :> {4}) @@ (DevelopmentBranch :> {1})
               @@ (QualityBranch :> {2, 1}) @@ (ProductionBranch :> {3}),
   commit  |-> (1 :> CommitData(2, 2, "alice", "alice-gh"))
               @@ (2 :> CommitData(1, 1, "bob", "bob-gh"))
               @@ (3 :> CommitData(1, 1, "bob", "bob-gh"))
               @@ (4 :> CommitData(1, 1, "bob", "bob-gh"))]

\* two qualifying branches and development on the first page, a non-qualifying
\* branch on the second; quality and production do not exist.  The older branch
\* is listed first.
TwoBranchRepo ==
  [pages   |-> << <<FeatureLogin, BugfixCrash, DevelopmentBranch>>, <<Release20>> >>,
   tip     |-> (FeatureLogin :> 1) @@ (BugfixCrash :> 2) @@ (DevelopmentBranch :> 3)
               @@ (Release20 :> 4),
   history |-> (FeatureLogin :> {1}) @@ (BugfixCrash :> {2, 1})
               @@ (DevelopmentBranch :> {3, 2}) @@ (Release20 :> {4}),
   commit  |-> (1 :> CommitData(1, 1, "alice", "alice-gh"))
               @@ (2 :> CommitData(2, 2, "", "bob-gh"))
               @@ (3 :> CommitData(1, 1, "bob", "bob-gh"))
               @@ (4 :> CommitData(1, 1, "bob", "bob-gh"))]

\* a qualifying branch on the second listing page, no target exists, and a tip
\* commit without author or date fields
SecondPageRepo ==
  [pages   |-> << <<Release20>>, <<HotfixOops>> >>,
   tip     |-> (Release20 :> 4) @@ (HotfixOops :> 5),
   history |-> (Release20 :> {4}) @@ (HotfixOops :> {5, 4}),
   commit  |-> (4 :> CommitData(1, 1, "bob", "bob-gh"))
               @@ (5 :> CommitData(0, 0, "", ""))]

\* two qualifying branches whose tip commits carry neither a committer date
\* nor an author date; none of the targets exists
UndatedRepo ==
  [pages   |-> << <<FeatureLogin, BugfixCrash>> >>,
   tip     |-> (FeatureLogin :> 1) @@ (BugfixCrash :> 2),
   history |-> (FeatureLogin :> {1}) @@ (BugfixCrash :> {2, 1}),
   commit  |-> (1 :> CommitData(0, 0, "alice", "alice-gh"))
               @@ (2 :> CommitData(0, 0, "", "bob-gh"))]

Repositories == {EmptyRepo, OneBranchRepo, TwoBranchRepo, SecondPageRepo}

\* the configured target names (development, quality, production)
Configs == { <<DevelopmentBranch, QualityBranch, ProductionBranch>>,
             <<DefaultDevelopment, QualityBranch, ProductionBranch>> }


\* --------------------------------------------------------- provider answers
\* axios resolves only for a 2xx answer; the compare endpoint answers 200
SuccessStatus == {200}

CompareStatuses == {"ahead", "behind", "identical", "diverged"}

\* data of a forward compare (target...branch).  ahead and behind are reported
\* with the counts that define them; identical and diverged with every count.
CompareAnswers ==
  { r \in [http : SuccessStatus, ahead_by : {0, MaxAhead}, behind_by : {0, MaxBehind},
           status : CompareStatuses] :
      /\ r.status = "ahead"  => (r.ahead_by > 0 /\ r.behind_by = 0)
      /\ r.status = "behind" => (r.ahead_by = 0 /\ r.behind_by > 0) }

\* data of a reverse compare (branch...target)
ReverseAnswers ==
  { [http |-> 200, ahead_by |-> MaxReverseAhead, behind_by |-> 0, status |-> "ahead"],
    [http |-> 200, ahead_by |-> 0, behind_by |-> 0, status |-> "ahead"],
    [http |-> 200, ahead_by |-> MaxReverseAhead, behind_by |-> 0, status |-> "diverged"] }

\* no compare answer received
NoCompare == [http |-> 0, ahead_by |-> 0, behind_by |-> 0, status |-> ""]

\* ------------------------------------------------------------------- state
VARIABLES
  impl,            \* 1: first definition of the module, 2: second definition
  repo,            \* the repository the provider serves
  defaultBranches, \* configured targets <<development, quality, production>>
  pc,              \* fetchGitHubBranches: "list", "fanout", "returned", "failed"
  currentPage,     \* page number of the listing request in flight
  allBranches,     \* names enumerated so far
  filteredBranches,\* the qualifying branches, in listing order
  br,              \* per filtered branch: its async task
  pair,            \* per <<branch index, target index>>: its async task
  output,          \* the sequence fetchGitHubBranches resolved with
  previous,        \* the finished call before this one: its tasks and its result
  \* state of RepositoryProvider
  repository,      \* useState<Repository | null>
  branches,        \* useState<Branch[]>
  loading,         \* useState(false)
  error,           \* useState<string | null>, "" for null
  lastRepoData,    \* localStorage item LAST_REPO_DATA_KEY
  calls,           \* the async calls in flight, in start order
  settled,         \* the async call that resolved or rejected last
  started,         \* how many calls of the provider's functions were made
  deleted,         \* provider side: the branches deleted from the repository
  bulk,            \* BulkActions: the handleBulkDeleteConfirm call and its toasts
  \* a call of getBranchType on its own
  argName,         \* its argument
  resultType,      \* its result, "" before it returns
  resultLower      \* the result for the lower-cased argument, "" before it returns

\* the variables of one fetchGitHubBranches call
reconcileVars == <<pc, currentPage, allBranches, filteredBranches, br, pair, output,
                   previous>>

\* the variables of RepositoryProvider and of the provider behind it
providerVars == <<repository, branches, loading, error, lastRepoData, calls, settled,
                  started, deleted, bulk>>

\* the variables of a getBranchType call on its own
classifyVars == <<argName, resultType, resultLower>>

vars == <<impl, repo, defaultBranches, pc, currentPage, allBranches,
          filteredBranches, br, pair, output, previous,
          repository, branches, loading, error, lastRepoData, calls, settled, started,
          deleted, bulk, argName, resultType, resultLower>>

\* no call has finished before this one
NoPrevious == [done |-> FALSE, br |-> <<>>, pair |-> <<>>, output |-> <<>>]

\* new Date().toISOString() when the call starts: later than every commit date
\* of the repositories, and later in a later call
Now == IF previous.done THEN 20 ELSE 10

\* ------------------------------------------------------------ small helpers
\* JavaScript a || b on strings ("" is falsy) and on dates (0 is undefined)
OrElse(a, b) == IF a # "" THEN a ELSE b
OrElseDate(a, b) == IF a # 0 THEN a ELSE b

Max(a, b) == IF a >= b THEN a ELSE b

NoCommit == CommitData(0, 0, "", "")
NoRecord == [id |-> <<>>, name |-> <<>>, type |-> "", lastUpdated |-> 0,
             author |-> "", status |-> <<>>]
NoStatus == [target |-> <<>>, isMerged |-> FALSE, lastMergeDate |-> 0,
             commitsBehind |-> 0, commitsAhead |-> 0]

\* filter on a sequence of names
RECURSIVE FilterIn(_, _)
FilterIn(s, names) ==
  IF s = <<>> THEN <<>>
  ELSE IF Head(s) \in names THEN <<Head(s)>> \o FilterIn(Tail(s), names)
       ELSE FilterIn(Tail(s), names)

Range(s) == { s[i] : i \in DOMAIN s }

\* concatenation of listing pages
RECURSIVE Flatten(_)
Flatten(pages) ==
  IF pages = <<>> THEN <<>> ELSE Head(pages) \o Flatten(Tail(pages))

\* the targets a branch is compared against.
\* first definition: the three configured names, lower-cased;
\* second definition: the configured names found among the listed branches
TargetsOf(all) ==
  IF impl = 1
  THEN << toLowerCase(defaultBranches[1]), toLowerCase(defaultBranches[2]),
          toLowerCase(defaultBranches[3]) >>
  ELSE FilterIn(<< defaultBranches[1], defaultBranches[2], defaultBranches[3] >>,
                Range(all))

targets == TargetsOf(allBranches)

\* { target, isMerged: false, commitsBehind: 0, commitsAhead: 0 }
UnmergedStatus(target) ==
  [target |-> target, isMerged |-> FALSE, lastMergeDate |-> 0,
   commitsBehind |-> 0, commitsAhead |-> 0]

\* mutant: lastMergeDate is stamped whatever the verdict
StatusAlwaysStamped(target, isMerged, commitsBehind, commitsAhead) ==
  [target |-> target, isMerged |-> isMerged, lastMergeDate |-> Now,
   commitsBehind |-> commitsBehind, commitsAhead |-> commitsAhead]

\* { target, isMerged, lastMergeDate: isMerged ? now : undefined, commitsBehind, commitsAhead }
Status(target, isMerged, commitsBehind, commitsAhead) ==
  [target |-> target, isMerged |-> isMerged,
   lastMergeDate |-> IF isMerged THEN Now ELSE 0,
   commitsBehind |-> commitsBehind, commitsAhead |-> commitsAhead]

\* the catch result of the second definition
UnmergedStatus2(target) ==
  [target |-> target, isMerged |-> FALSE, lastMergeDate |-> 0,
   commitsBehind |-> 0, commitsAhead |-> 0, totalCommits |-> 0, mergedCommits |-> 0]

\* Array.prototype.sort with (a, b) => time(b.lastUpdated) - time(a.lastUpdated):
\* descending by lastUpdated, stable
RECURSIVE InsertByLastUpdated(_, _)
InsertByLastUpdated(s, r) ==
  IF s = <<>> THEN <<r>>
  ELSE IF Head(s).lastUpdated >= r.lastUpdated
       THEN <<Head(s)>> \o InsertByLastUpdated(Tail(s), r)
       ELSE <<r>> \o s

\* mutant: the records are returned in task order, unsorted
KeepTaskOrder(s) == s

RECURSIVE SortByLastUpdated(_)
SortByLastUpdated(s) ==
  IF s = <<>> THEN <<>>
  ELSE InsertByLastUpdated(SortByLastUpdated(SubSeq(s, 1, Len(s) - 1)), s[Len(s)])

\* the task of one (branch, target) pair
NewPair(firstCall) ==
  [pc |-> firstCall, calls |-> <<firstCall>>, failed |-> {},
   fwd |-> NoCompare, rev |-> NoCompare, result |-> NoStatus]

PairsOf(k, pr) == { p \in DOMAIN pr : p[1] = k }

\* Promise.all(targets.map(...)) of branch k has resolved
AllPairsDone(k, pr) == \A p \in PairsOf(k, pr) : pr[p].pc = "done"

\* the branch tasks that have returned
Returned(b) == { k \in DOMAIN b : b[k].pc = "done" }

\* the readings of the clock that returned branch tasks put into their record
ClockSeen(b) ==
  { b[k].record.lastUpdated - Now :
      k \in { j \in Returned(b) : b[j].commit.committerDate = 0 /\ b[j].commit.authorDate = 0 } }

\* the time since the call started, as a branch task returning now may read
\* it: the clock does not go back, and it has advanced by at most one unit
\* for each task that returned before
Elapsed(b) ==
  { at \in 0..Cardinality(Returned(b)) : \A seen \in ClockSeen(b) : seen <= at }

\* the object a branch task returns; at: the time that has passed since the
\* call started when the task evaluates new Date()
BranchRecord(k, commit, pr, at) ==
  [id |-> filteredBranches[k],
   name |-> filteredBranches[k],
   type |-> getBranchType(filteredBranches[k]),
   lastUpdated |-> OrElseDate(commit.committerDate,
                              OrElseDate(commit.authorDate, Now + at)),
   author |-> OrElse(commit.authorName, OrElse(commit.authorLogin, "Unknown")),
   status |-> [i \in 1..Cardinality(PairsOf(k, pr)) |-> pr[<<k, i>>].result]]

\* branch tasks after the pairs changed to pr: a branch whose pairs are all
\* done returns its record
JoinPairs(b, pr, at) ==
  [k \in DOMAIN b |->
     IF b[k].pc = "targets" /\ AllPairsDone(k, pr)
     THEN [b[k] EXCEPT !.pc = "done", !.record = BranchRecord(k, b[k].commit, pr, at)]
     ELSE b[k]]

\* the outer Promise.all and the sort: once every branch task has returned,
\* fetchGitHubBranches resolves with the sorted records
JoinBranches(b) ==
  IF pc = "fanout" /\ \A k \in DOMAIN b : b[k].pc = "done"
  THEN /\ pc' = "returned"
       /\ output' = SortByLastUpdated([k \in DOMAIN b |-> b[k].record])
  ELSE UNCHANGED <<pc, output>>

\* mutant: a failed request of a pair is not caught and rejects the whole call
PairStepUncaught(p, s) ==
  LET pr == [pair EXCEPT ![p] = s] IN
     /\ pair' = pr
     /\ \E at \in Elapsed(br) :
          LET b == JoinPairs(br, pr, at) IN
          /\ br' = b
          /\ IF s.failed # pair[p].failed
             THEN pc' = "failed" /\ UNCHANGED output
             ELSE JoinBranches(b)
     /\ UNCHANGED <<impl, repo, defaultBranches, currentPage, allBranches,
                    filteredBranches, previous>>
     /\ UNCHANGED <<providerVars, classifyVars>>

\* mutant: the pair tasks of a branch write their status into one shared
\* variable, so the task that finishes last overwrites the others
PairStepSharedResult(p, s) ==
  LET pr == [q \in DOMAIN pair |->
               IF q = p THEN s
               ELSE IF q[1] = p[1] /\ s.pc = "done" /\ pair[q].pc = "done"
                    THEN [pair[q] EXCEPT !.result = s.result]
                    ELSE pair[q]]
  IN /\ pair' = pr
     /\ \E at \in Elapsed(br) :
          LET b == JoinPairs(br, pr, at) IN
          /\ br' = b
          /\ JoinBranches(b)
     /\ UNCHANGED <<impl, repo, defaultBranches, currentPage, allBranches,
                    filteredBranches, previous>>
     /\ UNCHANGED <<providerVars, classifyVars>>

\* a pair task moved to state s
PairStep(p, s) ==
  LET pr == [pair EXCEPT ![p] = s]
  IN /\ pair' = pr
     /\ \E at \in Elapsed(br) :
          LET b == JoinPairs(br, pr, at) IN
          /\ br' = b
          /\ JoinBranches(b)
     /\ UNCHANGED <<impl, repo, defaultBranches, currentPage, allBranches,
                    filteredBranches, previous>>
     /\ UNCHANGED <<providerVars, classifyVars>>

\* ------------------------------------------------------------ parseRepoUrl
\* String.prototype.includes
includes(s, sub) ==
  \E i \in 1..(Len(s) - Len(sub) + 1) : SubSeq(s, i, i + Len(sub) - 1) = sub

\* String.prototype.endsWith
endsWith(s, suffix) ==
  /\ Len(s) >= Len(suffix)
  /\ SubSeq(s, Len(s) - Len(suffix) + 1, Len(s)) = suffix

\* s without its first n characters
Drop(s, n) == SubSeq(s, n + 1, Len(s))

\* s.replace(/^(https?:\/\/)?(www\.)?/, '')
StripScheme(s) ==
  LET t == IF startsWith(s, <<"h","t","t","p","s",":","/","/">>) THEN Drop(s, 8)
           ELSE IF startsWith(s, <<"h","t","t","p",":","/","/">>) THEN Drop(s, 7)
           ELSE s
  IN IF startsWith(t, <<"w","w","w",".">>) THEN Drop(t, 4) ELSE t

\* String.prototype.split('/')
RECURSIVE Split(_)
Split(s) ==
  IF \A i \in DOMAIN s : s[i] # "/" THEN <<s>>
  ELSE LET i == CHOOSE j \in DOMAIN s : s[j] = "/" /\ \A k \in 1..(j - 1) : s[k] # "/"
       IN <<SubSeq(s, 1, i - 1)>> \o Split(Drop(s, i))

parseRepoUrl(url) ==
  LET provider == IF includes(url, <<"b","i","t","b","u","c","k","e","t">>) THEN "bitbucket"
                  ELSE IF includes(url, <<"g","i","t","l","a","b">>) THEN "gitlab"
                  ELSE "github"
      cleanUrl == IF endsWith(url, <<".","g","i","t">>)
                  THEN SubSeq(url, 1, Len(url) - 4) ELSE url
      parts == Split(StripScheme(cleanUrl))
  IN [provider |-> provider,
      owner |-> IF Len(parts) >= 2 THEN parts[Len(parts) - 1] ELSE <<>>,
      name  |-> IF Len(parts) >= 1 THEN parts[Len(parts)] ELSE <<>>]

\* Array.prototype.filter(Boolean) on strings: the empty ones are dropped
NonEmptyParts(parts) == SelectSeq(parts, LAMBDA part : part # <<>>)

\* parseRepoUrl of the second definition; ok = FALSE: it throws
parseRepoUrl2(url) ==
  LET provider == IF includes(url, <<"b","i","t","b","u","c","k","e","t">>) THEN "bitbucket"
                  ELSE IF includes(url, <<"g","i","t","l","a","b">>) THEN "gitlab"
                  ELSE "github"
      noScheme == StripScheme(url)
      noGit == IF endsWith(noScheme, <<".","g","i","t">>)
               THEN SubSeq(noScheme, 1, Len(noScheme) - 4) ELSE noScheme
      cleanUrl == IF startsWith(noGit, <<"g","i","t","h","u","b",".","c","o","m","/">>)
                  THEN Drop(noGit, 11) ELSE noGit
      parts == NonEmptyParts(Split(cleanUrl))
  IN IF Len(parts) < 2
     THEN [ok |-> FALSE, provider |-> provider, owner |-> <<>>, name |-> <<>>]
     ELSE [ok |-> TRUE, provider |-> provider,
           owner |-> parts[Len(parts) - 1], name |-> parts[Len(parts)]]

\* ------------------------------------------------- RepositoryProvider data
\* the URLs a user connects with
\* 'https://gh.io/acme/app.git'
UrlRepository ==
  <<"h","t","t","p","s",":","/","/","g","h",".","i","o","/",
    "a","c","m","e","/","a","p","p",".","g","i","t">>
\* 'app': no owner part
UrlNameOnly == <<"a","p","p">>
\* 'gh.io/acme/': a profile, no repository name
UrlProfile == <<"g","h",".","i","o","/","a","c","m","e","/">>
\* 'gitlab.io/acme/app'
UrlGitlab ==
  <<"g","i","t","l","a","b",".","i","o","/","a","c","m","e","/","a","p","p">>

Urls == { <<>>, UrlRepository, UrlNameOnly, UrlProfile, UrlGitlab }

\* access tokens; "" is no token
Tokens == {"", "token"}

\* 'acme', 'app': owner.login and name of the repository the provider serves
Acme == <<"a","c","m","e">>
App == <<"a","p","p">>

\* 'https://github.com/' + owner: the url of a profile handle
ProfileUrl(owner) ==
  <<"h","t","t","p","s",":","/","/","g","i","t","h","u","b",".","c","o","m","/">> \o owner

\* repository state null
NoRepository ==
  [present |-> FALSE, url |-> <<>>, provider |-> "", owner |-> <<>>, name |-> <<>>,
   isConnected |-> FALSE, token |-> "", defaultBranches |-> <<>>]

\* a Repository object; a missing field is "" or <<>>
Repository(url, provider, owner, name, isConnected, token, branchNames) ==
  [present |-> TRUE, url |-> url, provider |-> provider, owner |-> owner, name |-> name,
   isConnected |-> isConnected, token |-> token, defaultBranches |-> branchNames]

\* no item under LAST_REPO_DATA_KEY
NoRepoData == [saved |-> FALSE, url |-> <<>>, token |-> "", defaultBranches |-> <<>>]

\* saveLastRepoData({ url, token, defaultBranches })
RepoData(url, token, branchNames) ==
  [saved |-> TRUE, url |-> url, token |-> token, defaultBranches |-> branchNames]

\* an async call.  repo: the handle it works on; branches: the branches state
\* its closure captured; reconciled: it has called fetchGitHubBranches;
\* newDefaultBranches: the names of the updateDefaultBranches call that made
\* it, <<>> for any other call; ahead: for a fetchBranches call, the number
\* of fetchBranches calls started before it that were still in flight when it
\* settled; disconnected: disconnectRepository was called while it was in
\* flight and no connectRepository or fetchBranches call was started since
Call(op, at, handle, branchName, captured) ==
  [op |-> op, pc |-> at, repo |-> handle, branchName |-> branchName,
   branches |-> captured, reconciled |-> FALSE, newDefaultBranches |-> <<>>,
   ahead |-> 0, disconnected |-> FALSE]

\* no bulk delete was confirmed.  selected: the names of selectedBranches;
\* i: the position of the loop; repo, branches: repository and branches as the
\* deleteBranch of that render sees them; issued, succeeded: the names a DELETE
\* request was sent for, and those it succeeded for; reported: the number in
\* the success toast, 0 without one
NoBulk ==
  [pc |-> "idle", selected |-> <<>>, i |-> 0, successCount |-> 0,
   failedBranches |-> <<>>, repo |-> NoRepository, branches |-> <<>>,
   issued |-> {}, succeeded |-> {}, reported |-> 0]

\* no call has settled
NoCall == Call("", "", NoRepository, <<>>, <<>>)

\* --------------------------------------------------------------------- Init
Init ==
  /\ impl \in {1, 2}
  /\ repo \in Repositories
  /\ defaultBranches \in Configs
  /\ pc = "list"
  /\ currentPage = 1
  /\ allBranches = <<>>
  /\ filteredBranches = <<>>
  /\ br = <<>>
  /\ pair = <<>>
  /\ output = <<>>
  /\ previous = NoPrevious
  /\ repository = NoRepository
  /\ branches = <<>>
  /\ loading = FALSE
  /\ error = ""
  /\ lastRepoData = NoRepoData
  /\ calls = <<>>
  /\ settled = NoCall
  /\ started = 0
  /\ deleted = {}
  /\ bulk = NoBulk
  /\ argName = <<>>
  /\ resultType = ""
  /\ resultLower = ""

\* -------------------------------------------------------------- enumeration
\* end of enumeration: filter, then start one task per qualifying branch, each
\* issuing its tip-commit request
FanOut(all) ==
  LET filtered == FilterQualifying(all) IN
  /\ allBranches' = all
  /\ filteredBranches' = filtered
  /\ br' = [k \in 1..Len(filtered) |-> [pc |-> "commit", commit |-> NoCommit,
                                        record |-> NoRecord]]
  /\ IF filtered = <<>>
     THEN pc' = "returned" /\ output' = <<>>
     ELSE pc' = "fanout" /\ UNCHANGED output

\* mutant: a failed page request ends the loop and the pages already fetched
\* are reconciled
BranchesPageTolerant ==
  /\ impl = 1
  /\ pc = "list"
  /\ \E ok \in BOOLEAN :
       IF ~ok
       THEN FanOut(allBranches) /\ UNCHANGED currentPage
       ELSE LET branchesPage == IF currentPage <= Len(repo.pages)
                                THEN repo.pages[currentPage] ELSE <<>>
                hasNext == currentPage < Len(repo.pages)
            IN IF branchesPage = <<>>
               THEN FanOut(allBranches) /\ UNCHANGED currentPage
               ELSE /\ currentPage' = currentPage + 1
                    /\ IF hasNext
                       THEN /\ allBranches' = allBranches \o branchesPage
                            /\ UNCHANGED <<pc, filteredBranches, br, output>>
                       ELSE FanOut(allBranches \o branchesPage)
  /\ UNCHANGED <<impl, repo, defaultBranches, pair, previous>>
  /\ UNCHANGED <<providerVars, classifyVars>>

\* first definition: answer to the listing request of page currentPage
BranchesPageResponse ==
  /\ impl = 1
  /\ pc = "list"
  /\ \E ok \in BOOLEAN :
       IF ~ok
       THEN /\ pc' = "failed"
            /\ UNCHANGED <<currentPage, allBranches, filteredBranches, br, output>>
       ELSE LET branchesPage == IF currentPage <= Len(repo.pages)
                                THEN repo.pages[currentPage] ELSE <<>>
                hasNext == currentPage < Len(repo.pages)
            IN IF branchesPage = <<>>
               THEN FanOut(allBranches) /\ UNCHANGED currentPage
               ELSE /\ currentPage' = currentPage + 1
                    /\ IF hasNext
                       THEN /\ allBranches' = allBranches \o branchesPage
                            /\ UNCHANGED <<pc, filteredBranches, br, output>>
                       ELSE FanOut(allBranches \o branchesPage)
  /\ UNCHANGED <<impl, repo, defaultBranches, pair, previous>>
  /\ UNCHANGED <<providerVars, classifyVars>>

\* second definition: answer to the single listing request (no page parameter)
BranchesResponse2 ==
  /\ impl = 2
  /\ pc = "list"
  /\ \E ok \in BOOLEAN :
       IF ~ok
       THEN /\ pc' = "failed"
            /\ UNCHANGED <<allBranches, filteredBranches, br, output>>
       ELSE FanOut(repo.pages[1])
  /\ UNCHANGED <<impl, repo, defaultBranches, currentPage, pair, previous>>
  /\ UNCHANGED <<providerVars, classifyVars>>

\* ------------------------------------------------------------- branch tasks
\* answer to the tip-commit request of filtered branch k
CommitResponse(k) ==
  /\ pc \in {"fanout", "failed"}
  /\ br[k].pc = "commit"
  /\ \E ok \in BOOLEAN :
       IF ~ok
       THEN \* the branch task rejects, Promise.all rejects, the catch rethrows
            /\ br' = [br EXCEPT ![k].pc = "failed"]
            /\ pc' = "failed"
            /\ UNCHANGED <<pair, output>>
       ELSE LET commit == repo.commit[repo.tip[filteredBranches[k]]]
                first == IF impl = 1 THEN "exists" ELSE "compare"
                pr == pair @@ [p \in {k} \X (1..Len(targets)) |-> NewPair(first)]
            IN /\ pair' = pr
               /\ \E at \in Elapsed(br) :
                    LET b == JoinPairs([br EXCEPT ![k].pc = "targets",
                                                  ![k].commit = commit], pr, at)
                    IN /\ br' = b
                       /\ JoinBranches(b)
  /\ UNCHANGED <<impl, repo, defaultBranches, currentPage, allBranches, filteredBranches,
                  previous>>
  /\ UNCHANGED <<providerVars, classifyVars>>

\* ------------------------------------------- pair tasks, first definition
BranchOf(p) == filteredBranches[p[1]]
TargetOf(p) == targets[p[2]]

\* the task issues its next request
Issue(t, call) == [t EXCEPT !.pc = call, !.calls = Append(@, call)]

\* the task returns status st
Return(t, st) == [t EXCEPT !.pc = "done", !.result = st]

\* the request of the task failed
Fail(t) == [t EXCEPT !.failed = @ \cup {t.pc}]

\* the primary verdict of the first definition (line 225)
isMerged1(compareData) ==
  compareData.ahead_by = 0 /\ compareData.status # "diverged"

\* the verdict of the second definition (lines 1049-1050)
isMerged2(compareData) ==
  \/ (compareData.ahead_by = 0 /\ compareData.status # "diverged")
  \/ compareData.status = "identical"

\* mutant: the reverse compare is read in the wrong direction
ReverseMergedBehind(reverseData) ==
  reverseData.status = "behind" /\ reverseData.ahead_by > 0

\* the reverse compare shows the target contains the branch (line 238)
ReverseMerged(reverseData) ==
  reverseData.status = "ahead" /\ reverseData.ahead_by > 0

\* mutant: every commit of the page must be the branch tip
everyCommitIs(data, branchSha) == \A sha \in data : sha = branchSha

\* commitsResponse.data.some(commit => commit.sha === branchSha) (line 307)
someCommitIs(data, branchSha) == \E sha \in data : sha = branchSha

\* mutant: no estimate, 0 commits behind
BehindZero(isMerged) == 0

\* commitsBehind: isMerged ? 0 : 1 (line 313)
BehindEstimate(isMerged) == IF isMerged THEN 0 ELSE 1

\* answer to GET /branches/<target>: it succeeds only if the target exists
TargetExistsResponse(p) ==
  /\ impl = 1
  /\ p \in DOMAIN pair
  /\ pair[p].pc = "exists"
  /\ \E ok \in {FALSE} \cup {x \in {TRUE} : TargetOf(p) \in DOMAIN repo.tip} :
       IF ~ok
       THEN \* targetExists = false
            PairStep(p, Return(Fail(pair[p]), UnmergedStatus(TargetOf(p))))
       ELSE PairStep(p, Issue(pair[p], "compare"))

\* mutant: an answered compare that establishes no merge also falls back to
\* the SHA comparison
CompareResponseFallsBack(p) ==
  /\ impl = 1
  /\ p \in DOMAIN pair
  /\ pair[p].pc = "compare"
  /\ \/ PairStep(p, Issue(Fail(pair[p]), "branchSha"))
     \/ \E compareData \in CompareAnswers :
          LET t == [pair[p] EXCEPT !.fwd = compareData]
              isMerged == isMerged1(compareData)
          IN IF isMerged
             THEN PairStep(p, Return(t, Status(TargetOf(p), isMerged,
                                               compareData.behind_by, compareData.ahead_by)))
             ELSE PairStep(p, Issue(t, "branchSha"))

\* answer to the forward compare target...branch
CompareResponse(p) ==
  /\ impl = 1
  /\ p \in DOMAIN pair
  /\ pair[p].pc = "compare"
  /\ \/ \* the call throws: fall back to the SHA comparison
        PairStep(p, Issue(Fail(pair[p]), "branchSha"))
     \/ \E compareData \in CompareAnswers :
          LET t == [pair[p] EXCEPT !.fwd = compareData]
              commitsAhead == compareData.ahead_by
              commitsBehind == compareData.behind_by
              isMerged == isMerged1(compareData)
          IN IF compareData.http = 200
             THEN IF ~isMerged /\ commitsBehind = 0
                  THEN PairStep(p, Issue(t, "reverseCompare"))
                  ELSE PairStep(p, Return(t, Status(TargetOf(p), isMerged,
                                                    commitsBehind, commitsAhead)))
             ELSE PairStep(p, Return(t, UnmergedStatus(TargetOf(p))))

\* mutant: a failed reverse compare falls back to the SHA comparison
ReverseCompareResponseFallsBack(p) ==
  /\ impl = 1
  /\ p \in DOMAIN pair
  /\ pair[p].pc = "reverseCompare"
  /\ LET compareData == pair[p].fwd
         fromForward == Status(TargetOf(p), isMerged1(compareData),
                               compareData.behind_by, compareData.ahead_by)
     IN \/ PairStep(p, Issue(Fail(pair[p]), "branchSha"))
        \/ \E reverseData \in ReverseAnswers :
             LET t == [pair[p] EXCEPT !.rev = reverseData] IN
             IF ReverseMerged(reverseData)
             THEN PairStep(p, Return(t, Status(TargetOf(p), TRUE, 0, 0)))
             ELSE PairStep(p, Return(t, fromForward))

\* answer to the reverse compare branch...target
ReverseCompareResponse(p) ==
  /\ impl = 1
  /\ p \in DOMAIN pair
  /\ pair[p].pc = "reverseCompare"
  /\ LET compareData == pair[p].fwd
         fromForward == Status(TargetOf(p), isMerged1(compareData),
                               compareData.behind_by, compareData.ahead_by)
     IN \/ \* the call throws: logged, the forward outcome is returned
           PairStep(p, Return(Fail(pair[p]), fromForward))
        \/ \E reverseData \in ReverseAnswers :
             LET t == [pair[p] EXCEPT !.rev = reverseData] IN
             IF ReverseMerged(reverseData)
             THEN PairStep(p, Return(t, Status(TargetOf(p), TRUE, 0, 0)))
             ELSE PairStep(p, Return(t, fromForward))

\* answer to GET /branches/<branch> of the fallback
BranchShaResponse(p) ==
  /\ impl = 1
  /\ p \in DOMAIN pair
  /\ pair[p].pc = "branchSha"
  /\ \E ok \in BOOLEAN :
       IF ~ok
       THEN PairStep(p, Return(Fail(pair[p]), UnmergedStatus(TargetOf(p))))
       ELSE PairStep(p, Issue(pair[p], "targetSha"))

\* answer to GET /branches/<target> of the fallback
TargetShaResponse(p) ==
  /\ impl = 1
  /\ p \in DOMAIN pair
  /\ pair[p].pc = "targetSha"
  /\ \E ok \in BOOLEAN :
       IF ~ok
       THEN PairStep(p, Return(Fail(pair[p]), UnmergedStatus(TargetOf(p))))
       ELSE LET branchSha == repo.tip[BranchOf(p)]
                targetSha == repo.tip[TargetOf(p)]
            IN IF branchSha = targetSha
               THEN PairStep(p, Return(pair[p], Status(TargetOf(p), TRUE, 0, 0)))
               ELSE PairStep(p, Issue(pair[p], "commits"))

\* answer to GET /commits?sha=<target> of the fallback
CommitsResponse(p) ==
  /\ impl = 1
  /\ p \in DOMAIN pair
  /\ pair[p].pc = "commits"
  /\ \E ok \in BOOLEAN :
       IF ~ok
       THEN PairStep(p, Return(Fail(pair[p]), UnmergedStatus(TargetOf(p))))
       ELSE LET branchSha == repo.tip[BranchOf(p)]
                isMerged == someCommitIs(repo.history[TargetOf(p)], branchSha)
            IN PairStep(p, Return(pair[p],
                 Status(TargetOf(p), isMerged, BehindEstimate(isMerged), 0)))

\* ------------------------------------------ pair tasks, second definition
\* answer to the compare target...branch
CompareResponse2(p) ==
  /\ impl = 2
  /\ p \in DOMAIN pair
  /\ pair[p].pc = "compare"
  /\ \/ PairStep(p, Return(Fail(pair[p]), UnmergedStatus2(TargetOf(p))))
     \/ \E compareData \in CompareAnswers :
          PairStep(p, Issue([pair[p] EXCEPT !.fwd = compareData], "featureCommits"))

\* answer to GET /commits?sha=<branch>
FeatureCommitsResponse2(p) ==
  /\ impl = 2
  /\ p \in DOMAIN pair
  /\ pair[p].pc = "featureCommits"
  /\ \E ok \in BOOLEAN :
       IF ~ok
       THEN PairStep(p, Return(Fail(pair[p]), UnmergedStatus2(TargetOf(p))))
       ELSE LET compareData == pair[p].fwd
                commitsAhead == compareData.ahead_by
                isMerged == isMerged2(compareData)
                totalCommits == Cardinality(repo.history[BranchOf(p)])
                mergedCommits == totalCommits - commitsAhead
            IN PairStep(p, Return(pair[p],
                 [target |-> TargetOf(p), isMerged |-> isMerged,
                  lastMergeDate |-> IF isMerged THEN Now ELSE 0,
                  commitsBehind |-> compareData.behind_by,
                  commitsAhead |-> commitsAhead,
                  totalCommits |-> totalCommits,
                  mergedCommits |-> Max(0, mergedCommits)]))

\* --------------------------------------------------------------------- Next
Next ==
  \/ BranchesPageResponse
  \/ BranchesResponse2
  \/ \E k \in DOMAIN br : CommitResponse(k)
  \/ \E p \in DOMAIN pair : TargetExistsResponse(p)
  \/ \E p \in DOMAIN pair : CompareResponse(p)
  \/ \E p \in DOMAIN pair : ReverseCompareResponse(p)
  \/ \E p \in DOMAIN pair : BranchShaResponse(p)
  \/ \E p \in DOMAIN pair : TargetShaResponse(p)
  \/ \E p \in DOMAIN pair : CommitsResponse(p)
  \/ \E p \in DOMAIN pair : CompareResponse2(p)
  \/ \E p \in DOMAIN pair : FeatureCommitsResponse2(p)

Spec == Init /\ [][Next]_vars

\* ------------------------------------------------- two calls in succession
\* fetchBranches runs fetchGitHubBranches once more on the same handle after
\* the first call has returned; every local of the function starts afresh
fetchBranchesAgain ==
  /\ pc = "returned"
  /\ ~previous.done
  /\ previous' = [done |-> TRUE, br |-> br, pair |-> pair, output |-> output]
  /\ pc' = "list"
  /\ currentPage' = 1
  /\ allBranches' = <<>>
  /\ filteredBranches' = <<>>
  /\ br' = <<>>
  /\ pair' = <<>>
  /\ output' = <<>>
  /\ UNCHANGED <<impl, repo, defaultBranches>>
  /\ UNCHANGED <<providerVars, classifyVars>>

IsPrefix(s, t) == Len(s) <= Len(t) /\ SubSeq(t, 1, Len(s)) = s

\* the requests of a pair task that have been answered
Answered(t) == Range(t.calls) \ (IF t.pc = "done" THEN {} ELSE {t.pc})

\* the provider has answered every request of this call as it answered the
\* same request of the previous call
SameAnswers ==
  /\ pc # "failed"
  /\ \A p \in DOMAIN pair :
       /\ p \in DOMAIN previous.pair
       /\ IsPrefix(pair[p].calls, previous.pair[p].calls)
       /\ pair[p].failed = previous.pair[p].failed \cap Answered(pair[p])
       /\ pair[p].fwd \in {NoCompare, previous.pair[p].fwd}
       /\ pair[p].rev \in {NoCompare, previous.pair[p].rev}

\* a response of the first call
FirstCall == ~previous.done /\ Next

\* a response of the second call; the responses arrive in any order
SecondCall == previous.done /\ Next /\ SameAnswers'

\* a repository with two qualifying branches, one with none, one with none
\* on the first page
InitTwice ==
  /\ Init
  /\ repo \in {EmptyRepo, TwoBranchRepo, SecondPageRepo}
  /\ defaultBranches = <<DevelopmentBranch, QualityBranch, ProductionBranch>>

NextTwice == FirstCall \/ fetchBranchesAgain \/ SecondCall

SpecTwice == InitTwice /\ [][NextTwice]_vars

\* two calls in succession on a repository whose branch tips carry no date:
\* the second call gets the answers of the first in any order of completion
InitOrder ==
  /\ impl \in {1, 2}
  /\ repo = UndatedRepo
  /\ defaultBranches = <<DevelopmentBranch, QualityBranch, ProductionBranch>>
  /\ pc = "list"
  /\ currentPage = 1
  /\ allBranches = <<>>
  /\ filteredBranches = <<>>
  /\ br = <<>>
  /\ pair = <<>>
  /\ output = <<>>
  /\ previous = NoPrevious
  /\ repository = NoRepository
  /\ branches = <<>>
  /\ loading = FALSE
  /\ error = ""
  /\ lastRepoData = NoRepoData
  /\ calls = <<>>
  /\ settled = NoCall
  /\ started = 0
  /\ deleted = {}
  /\ bulk = NoBulk
  /\ argName = <<>>
  /\ resultType = ""
  /\ resultLower = ""

SpecOrder == InitOrder /\ [][NextTwice]_vars

\* ------------------------------------------------- getBranchType on its own
\* beginnings of branch names: the prefixes of the classifier in several
\* spellings, and beginnings that are no prefix of it
NameStarts ==
  { <<"f","e","a","t","u","r","e","/">>, <<"f","e","a","t","/">>,
    <<"f","e","a","t","u","r","e","s","/">>, <<"F","e","a","t","u","r","e","/">>,
    <<"F","E","A","T","U","R","E","/">>, <<"F","e","A","t","/">>,
    <<"F","E","A","T","U","R","E","S","/">>,
    <<"b","u","g","f","i","x","/">>, <<"b","u","g","/">>, <<"f","i","x","/">>,
    <<"B","u","g","F","i","x","/">>, <<"b","u","g","F","i","x","/">>,
    <<"B","u","g","/">>, <<"F","i","x","/">>, <<"B","U","G","F","I","X","/">>,
    <<"b","U","g","/">>, <<"F","I","X","/">>,
    <<"h","o","t","f","i","x","/">>, <<"H","o","t","F","i","x","/">>,
    <<"h","o","t","F","i","x","/">>, <<"H","O","T","F","I","X","/">>,
    <<"H","o","t","f","i","X","/">>,
    <<"r","e","l","e","a","s","e","/">>, <<"f","e","a","t","u","r","e">>,
    <<"h","o","t","/">>, <<"f","i","x","e","s","/">>, <<"x","/","f","i","x","/">>,
    <<"/","b","u","g","/">>, <<>> }

\* what follows the beginning
NameEnds == { <<>>, <<"x">>, <<"a","/","B">> }

\* the branch names getBranchType is called with
BranchNames ==
  { start \o end : start \in NameStarts, end \in NameEnds } \cup {BugfixCrash, Release20}

\* getBranchType(branch.name) returns
Classify ==
  /\ resultType = ""
  /\ resultType' = getBranchType(argName)
  /\ UNCHANGED <<impl, repo, defaultBranches, reconcileVars, providerVars, argName,
                  resultLower>>

\* getBranchType(branch.name.toLowerCase()) returns
ClassifyLowerCased ==
  /\ resultLower = ""
  /\ resultLower' = getBranchType(toLowerCase(argName))
  /\ UNCHANGED <<impl, repo, defaultBranches, reconcileVars, providerVars, argName,
                  resultType>>

InitClassify ==
  /\ impl \in {1, 2}
  /\ repo = EmptyRepo
  /\ defaultBranches = <<DevelopmentBranch, QualityBranch, ProductionBranch>>
  /\ pc = "list"
  /\ currentPage = 1
  /\ allBranches = <<>>
  /\ filteredBranches = <<>>
  /\ br = <<>>
  /\ pair = <<>>
  /\ output = <<>>
  /\ previous = NoPrevious
  /\ repository = NoRepository
  /\ branches = <<>>
  /\ loading = FALSE
  /\ error = ""
  /\ lastRepoData = NoRepoData
  /\ calls = <<>>
  /\ settled = NoCall
  /\ started = 0
  /\ deleted = {}
  /\ bulk = NoBulk
  /\ argName \in BranchNames
  /\ resultType = ""
  /\ resultLower = ""

NextClassify == Classify \/ ClassifyLowerCased

SpecClassify == InitClassify /\ [][NextClassify]_vars

\* ================================================== RepositoryProvider
\* One action is one call of a function of the provider by the user, or one
\* response with the continuation of the async function that awaited it.  A
\* function reads repository and branches as they were when it was called (the
\* values its closure captured at the last render).

\* the calls of the provider's functions a run makes
MaxCalls == 4

\* the reconcile-level variables and the world do not change
ProviderFrame ==
  /\ UNCHANGED <<impl, repo, defaultBranches>>
  /\ UNCHANGED <<reconcileVars, classifyVars>>
  /\ UNCHANGED bulk

\* the same for the actions of BulkActions
BulkFrame ==
  /\ UNCHANGED <<impl, repo, defaultBranches>>
  /\ UNCHANGED <<reconcileVars, classifyVars>>

\* the listing as the provider serves it now
Remaining(names) == SelectSeq(names, LAMBDA n : n \notin deleted)

\* the targets fetchGitHubBranches compares against, for configured names
TargetsFor(all, branchNames) ==
  IF impl = 1
  THEN << toLowerCase(branchNames[1]), toLowerCase(branchNames[2]),
          toLowerCase(branchNames[3]) >>
  ELSE FilterIn(<< branchNames[1], branchNames[2], branchNames[3] >>, Range(all))

\* a record of a fetchGitHubBranches result; no selected field, which reads as false
FetchedBranch(n, all, branchNames) ==
  LET commit == repo.commit[repo.tip[n]]
      tgts == TargetsFor(all, branchNames)
      \* the target exists and has the tip of the branch in its history
      merged(t) == t \in DOMAIN repo.tip /\ someCommitIs(repo.history[t], repo.tip[n])
  IN [id |-> n, name |-> n, type |-> getBranchType(n),
      lastUpdated |-> OrElseDate(commit.committerDate, OrElseDate(commit.authorDate, Now)),
      author |-> OrElse(commit.authorName, OrElse(commit.authorLogin, "Unknown")),
      status |-> [i \in DOMAIN tgts |-> Status(tgts[i], merged(tgts[i]), 0, 0)],
      selected |-> FALSE]

\* what a fetchGitHubBranches call of the provider resolves with (ok) or that
\* it throws (~ok).  The provider serves one repository, acme/app.
Reconciled(handle) ==
  { [ok |-> FALSE, branches |-> <<>>] } \cup
  { [ok |-> TRUE,
     branches |->
       LET all == Remaining(IF impl = 1 THEN Flatten(repo.pages) ELSE repo.pages[1])
           filtered == FilterQualifying(all)
       IN SortByLastUpdated([k \in DOMAIN filtered |->
            FetchedBranch(filtered[k], all, handle.defaultBranches)])] :
    served \in {x \in {TRUE} : handle.owner = Acme /\ handle.name = App} }

\* s without its element at position c
Without(s, c) == SubSeq(s, 1, c - 1) \o SubSeq(s, c + 1, Len(s))

\* the call at position c resolved ("resolved"; "caught" when its catch block
\* ran before) or rejected ("rejected")
Settle(c, how) ==
  /\ calls' = Without(calls, c)
  /\ settled' = [calls[c] EXCEPT
                  !.pc = how,
                  !.ahead = IF calls[c].op = "fetchBranches"
                            THEN Cardinality({ d \in 1..(c - 1) :
                                                 calls[d].op = "fetchBranches" })
                            ELSE 0]

\* the call at position c called fetchGitHubBranches
CallReconcile(c) ==
  /\ calls' = [calls EXCEPT ![c].pc = "branches", ![c].reconciled = TRUE]
  /\ UNCHANGED settled

\* the user (a component) calls a function of the provider
UserCall == started < MaxCalls /\ started' = started + 1

\* a call started
Start(call) ==
  /\ calls' = Append(IF call.op \in {"connectRepository", "fetchBranches"}
                     THEN [i \in DOMAIN calls |-> [calls[i] EXCEPT !.disconnected = FALSE]]
                     ELSE calls,
                     call)
  /\ UNCHANGED settled

\* ------------------------------------- connectRepository, first definition
\* the call up to its first await (fetchRepoStats)
connectRepository(url, token, branchNames) ==
  /\ impl = 1
  /\ UserCall
  /\ IF url = <<>>
     THEN /\ error' = "Repository URL is required"
          /\ UNCHANGED <<repository, branches, loading, lastRepoData, calls, settled, deleted>>
     ELSE LET parsed == parseRepoUrl(url) IN
          IF parsed.owner = <<>> \/ parsed.name = <<>>
          THEN \* throw new Error('Invalid repository URL format'), caught
               /\ error' = "Failed to connect to the repository."
               /\ repository' = NoRepository
               /\ branches' = <<>>
               /\ loading' = FALSE
               /\ UNCHANGED <<lastRepoData, calls, settled, deleted>>
          ELSE /\ loading' = TRUE
               /\ error' = ""
               /\ Start(Call("connectRepository", "stats",
                         Repository(url, parsed.provider, parsed.owner, parsed.name, TRUE,
                                    token, branchNames), <<>>, <<>>))
               /\ UNCHANGED <<repository, branches, lastRepoData, deleted>>
  /\ ProviderFrame

\* fetchRepoStats returned (it never throws): the handle is stored and saved,
\* then the branches are fetched
ConnectStatsResponse(c) ==
  /\ impl = 1
  /\ calls[c].op = "connectRepository"
  /\ calls[c].pc = "stats"
  /\ UNCHANGED started
  /\ repository' = calls[c].repo
  /\ lastRepoData' = RepoData(calls[c].repo.url, calls[c].repo.token,
                              calls[c].repo.defaultBranches)
  /\ IF calls[c].repo.provider = "github"
     THEN /\ CallReconcile(c)
          /\ UNCHANGED <<branches, loading, error>>
     ELSE \* throw new Error('Only GitHub is currently supported'), caught
          /\ error' = "Failed to fetch branches from repository."
          /\ branches' = <<>>
          /\ loading' = FALSE
          /\ Settle(c, "caught")
  /\ UNCHANGED deleted
  /\ ProviderFrame

\* fetchGitHubBranches returned or threw
ConnectBranchesResponse(c) ==
  /\ impl = 1
  /\ calls[c].op = "connectRepository"
  /\ calls[c].pc = "branches"
  /\ UNCHANGED started
  /\ \E r \in Reconciled(calls[c].repo) :
       IF r.ok
       THEN branches' = r.branches /\ UNCHANGED error /\ Settle(c, "resolved")
       ELSE /\ branches' = <<>>
            /\ error' = "Failed to fetch branches from repository."
            /\ Settle(c, "caught")
  /\ loading' = FALSE
  /\ UNCHANGED <<repository, lastRepoData, deleted>>
  /\ ProviderFrame

\* ------------------------------------ connectRepository, second definition
\* repoData.html_url of the repository the provider serves
HtmlUrl == ProfileUrl(Acme) \o <<"/">> \o App

\* the call up to its return (a profile) or its first await (GET /repos/o/n)
connectRepository2(url, token, branchNames) ==
  /\ impl = 2
  /\ UserCall
  /\ LET parsed == parseRepoUrl2(url) IN
     IF ~parsed.ok
     THEN \* parseRepoUrl throws, caught: setError(error.message)
          /\ error' = "Invalid repository URL format."
          /\ repository' = NoRepository
          /\ loading' = FALSE
          /\ UNCHANGED <<branches, lastRepoData, calls, settled, deleted>>
     ELSE IF parsed.name = <<>>
          THEN \* isProfile
               /\ error' = ""
               /\ repository' = Repository(ProfileUrl(parsed.owner), parsed.provider,
                                           parsed.owner, <<>>, TRUE, token, branchNames)
               /\ lastRepoData' = RepoData(ProfileUrl(parsed.owner), token, branchNames)
               /\ loading' = FALSE
               /\ UNCHANGED <<branches, calls, settled, deleted>>
          ELSE /\ error' = ""
               /\ loading' = TRUE
               /\ Start(Call("connectRepository", "repo",
                         Repository(url, parsed.provider, parsed.owner, parsed.name, TRUE,
                                    token, branchNames), <<>>, <<>>))
               /\ UNCHANGED <<repository, branches, lastRepoData, deleted>>
  /\ ProviderFrame

\* answer to GET /repos/<owner>/<name>; on success the handle is built from
\* the answer, stored and saved, and fetchBranches(repository) is called
ConnectRepoResponse2(c) ==
  /\ impl = 2
  /\ calls[c].op = "connectRepository"
  /\ calls[c].pc = "repo"
  /\ UNCHANGED started
  /\ \E ok \in {FALSE} \cup {x \in {TRUE} : calls[c].repo.owner = Acme
                                             /\ calls[c].repo.name = App} :
       IF ~ok
       THEN /\ error' = "Failed to connect to repository"
            /\ repository' = NoRepository
            /\ loading' = FALSE
            /\ Settle(c, "caught")
            /\ UNCHANGED lastRepoData
       ELSE LET handle == Repository(HtmlUrl, calls[c].repo.provider, Acme, App, TRUE,
                                     calls[c].repo.token, calls[c].repo.defaultBranches)
            IN /\ repository' = handle
               /\ lastRepoData' = RepoData(HtmlUrl, handle.token, handle.defaultBranches)
               /\ loading' = TRUE
               /\ error' = ""
               /\ calls' = [calls EXCEPT ![c].pc = "branches", ![c].reconciled = TRUE,
                                          ![c].repo = handle]
               /\ UNCHANGED settled
  /\ UNCHANGED <<branches, deleted>>
  /\ ProviderFrame

\* fetchGitHubBranches of the inner fetchBranches returned or threw
ConnectBranchesResponse2(c) ==
  /\ impl = 2
  /\ calls[c].op = "connectRepository"
  /\ calls[c].pc = "branches"
  /\ UNCHANGED started
  /\ \E r \in Reconciled(calls[c].repo) :
       IF r.ok
       THEN branches' = r.branches /\ UNCHANGED error /\ Settle(c, "resolved")
       ELSE error' = "Failed to fetch branches" /\ UNCHANGED branches /\ Settle(c, "caught")
  /\ loading' = FALSE
  /\ UNCHANGED <<repository, lastRepoData, deleted>>
  /\ ProviderFrame

\* ----------------------------------------- fetchBranches, first definition
\* the call up to its first await (fetchRepoStats)
fetchBranches ==
  /\ impl = 1
  /\ UserCall
  /\ IF ~repository.present
     THEN /\ error' = "No repository connected"
          /\ UNCHANGED <<loading, calls, settled>>
     ELSE /\ loading' = TRUE
          /\ error' = ""
          /\ Start(Call("fetchBranches", "stats", repository, <<>>, branches))
  /\ UNCHANGED <<repository, branches, lastRepoData, deleted>>
  /\ ProviderFrame

\* fetchRepoStats returned (it never throws): switch on the provider
FetchStatsResponse(c) ==
  /\ impl = 1
  /\ calls[c].op = "fetchBranches"
  /\ calls[c].pc = "stats"
  /\ UNCHANGED started
  /\ IF calls[c].repo.provider = "github"
     THEN /\ CallReconcile(c)
          /\ UNCHANGED <<loading, error>>
     ELSE \* throw new Error('Only GitHub is currently supported'), caught
          /\ error' = "Failed to fetch branches."
          /\ loading' = FALSE
          /\ Settle(c, "caught")
  /\ UNCHANGED <<repository, branches, lastRepoData, deleted>>
  /\ ProviderFrame

\* mutant: the fetched records take over the selected flags of the records
\* they replace
FetchBranchesResponseKeepsSelection(c) ==
  /\ impl = 1
  /\ calls[c].op = "fetchBranches"
  /\ calls[c].pc = "branches"
  /\ UNCHANGED started
  /\ \E r \in Reconciled(calls[c].repo) :
       IF r.ok
       THEN /\ branches' = [i \in DOMAIN r.branches |->
                               [r.branches[i] EXCEPT !.selected =
                                  \E b \in Range(branches) :
                                    b.name = r.branches[i].name /\ b.selected]]
            /\ repository' = calls[c].repo
            /\ UNCHANGED error
            /\ Settle(c, "resolved")
       ELSE /\ error' = "Failed to fetch branches."
            /\ UNCHANGED <<branches, repository>>
            /\ Settle(c, "caught")
  /\ loading' = FALSE
  /\ UNCHANGED <<lastRepoData, deleted>>
  /\ ProviderFrame

\* fetchGitHubBranches returned or threw; on success the branches are stored
\* and the handle the call started with gets a new lastFetched
FetchBranchesResponse(c) ==
  /\ impl = 1
  /\ calls[c].op = "fetchBranches"
  /\ calls[c].pc = "branches"
  /\ UNCHANGED started
  /\ \E r \in Reconciled(calls[c].repo) :
       IF r.ok
       THEN /\ branches' = r.branches
            /\ repository' = calls[c].repo
            /\ UNCHANGED error
            /\ Settle(c, "resolved")
       ELSE /\ error' = "Failed to fetch branches."
            /\ UNCHANGED <<branches, repository>>
            /\ Settle(c, "caught")
  /\ loading' = FALSE
  /\ UNCHANGED <<lastRepoData, deleted>>
  /\ ProviderFrame

\* ---------------------------------------- fetchBranches, second definition
\* the call (without argument) up to its await of fetchGitHubBranches; it
\* returns at once when there is no repository
fetchBranches2 ==
  /\ impl = 2
  /\ UserCall
  /\ repository.present
  /\ loading' = TRUE
  /\ error' = ""
  /\ Start([Call("fetchBranches", "branches", repository, <<>>, branches)
          EXCEPT !.reconciled = TRUE])
  /\ UNCHANGED <<repository, branches, lastRepoData, deleted>>
  /\ ProviderFrame

FetchBranchesResponse2(c) ==
  /\ impl = 2
  /\ calls[c].op = "fetchBranches"
  /\ calls[c].pc = "branches"
  /\ UNCHANGED started
  /\ \E r \in Reconciled(calls[c].repo) :
       IF r.ok
       THEN branches' = r.branches /\ UNCHANGED error /\ Settle(c, "resolved")
       ELSE error' = "Failed to fetch branches" /\ UNCHANGED branches /\ Settle(c, "caught")
  /\ loading' = FALSE
  /\ UNCHANGED <<repository, lastRepoData, deleted>>
  /\ ProviderFrame

\* ---------------------------------------------------- updateDefaultBranches
\* the names a user changes the configuration to: release/2.0 for development
OtherNames == <<Release20, QualityBranch, ProductionBranch>>

\* first definition: the handle with the new names is stored and saved, then
\* fetchBranches() of the same render is called, which reads the repository
\* of that render
updateDefaultBranches(newDefaultBranches) ==
  /\ impl = 1
  /\ UserCall
  /\ IF ~repository.present
     THEN UNCHANGED <<repository, lastRepoData, loading, error, calls, settled>>
     ELSE /\ repository' = [repository EXCEPT !.defaultBranches = newDefaultBranches]
          /\ lastRepoData' = IF repository.url # <<>> /\ repository.token # ""
                             THEN RepoData(repository.url, repository.token,
                                           newDefaultBranches)
                             ELSE lastRepoData
          /\ loading' = TRUE
          /\ error' = ""
          /\ Start([Call("fetchBranches", "stats", repository, <<>>, branches)
                    EXCEPT !.newDefaultBranches = newDefaultBranches])
  /\ UNCHANGED <<branches, deleted>>
  /\ ProviderFrame

\* second definition: the handle with the new names is stored and passed to
\* fetchBranches(updatedRepo)
updateDefaultBranches2(newDefaultBranches) ==
  /\ impl = 2
  /\ UserCall
  /\ IF ~repository.present
     THEN UNCHANGED <<repository, loading, error, calls, settled>>
     ELSE LET updatedRepo == [repository EXCEPT !.defaultBranches = newDefaultBranches]
          IN /\ repository' = updatedRepo
             /\ loading' = TRUE
             /\ error' = ""
             /\ Start([Call("fetchBranches", "branches", updatedRepo, <<>>, branches)
                       EXCEPT !.reconciled = TRUE,
                              !.newDefaultBranches = newDefaultBranches])
  /\ UNCHANGED <<branches, lastRepoData, deleted>>
  /\ ProviderFrame

\* ------------------------------------------------------------ deleteBranch
\* branches.filter(branch => branch.name !== branchName)
WithoutBranch(list, branchName) == SelectSeq(list, LAMBDA b : b.name # branchName)

\* catch: throw new Error('Failed to delete branch: ...')
DeleteFailure == "rejected"

\* the call up to its await of the DELETE request
deleteBranch(branchName) ==
  /\ UserCall
  /\ IF ~repository.present \/ repository.token = ""
     THEN /\ error' = "Repository token is required to delete branches"
          /\ UNCHANGED <<calls, settled>>
     ELSE /\ Start(Call("deleteBranch", "delete", repository, branchName, branches))
          /\ UNCHANGED error
  /\ UNCHANGED <<repository, branches, loading, lastRepoData, deleted>>
  /\ ProviderFrame

\* answer to DELETE /repos/<owner>/<name>/git/refs/heads/<branch>: it succeeds
\* only for a branch that exists in the repository the provider serves
DeleteResponse(c) ==
  /\ calls[c].op = "deleteBranch"
  /\ calls[c].pc = "delete"
  /\ UNCHANGED started
  /\ \E ok \in {FALSE} \cup {x \in {TRUE} : /\ calls[c].repo.owner = Acme
                                             /\ calls[c].repo.name = App
                                             /\ calls[c].branchName \notin deleted} :
       IF ok
       THEN /\ deleted' = deleted \cup {calls[c].branchName}
            /\ branches' = WithoutBranch(calls[c].branches, calls[c].branchName)
            /\ Settle(c, "resolved")
       ELSE /\ Settle(c, DeleteFailure)
            /\ UNCHANGED <<branches, deleted>>
  /\ UNCHANGED <<repository, loading, error, lastRepoData>>
  /\ ProviderFrame

\* ---------------------------------------------------- disconnectRepository
disconnectRepository ==
  /\ UserCall
  /\ repository' = IF repository.present
                   THEN [repository EXCEPT !.isConnected = FALSE]
                   ELSE NoRepository
  /\ branches' = <<>>
  /\ calls' = [i \in DOMAIN calls |-> [calls[i] EXCEPT !.disconnected = TRUE]]
  /\ UNCHANGED <<loading, error, lastRepoData, settled, deleted>>
  /\ ProviderFrame

\* ------------------------------------------------------- the provider's run
\* what the mount effect makes of the saved last-repository data: the handle
\* has url, token and default branches only, and is not connected
RestoredRepository(data) ==
  IF data.saved /\ data.url # <<>>
  THEN [NoRepository EXCEPT !.present = TRUE, !.url = data.url, !.token = data.token,
                            !.defaultBranches = data.defaultBranches]
  ELSE NoRepository

\* the last-repository data a browser may hold when the provider mounts
SavedRepoData ==
  { NoRepoData,
    RepoData(UrlRepository, "token", <<DevelopmentBranch, QualityBranch, ProductionBranch>>) }

\* the provider after its mount effect
InitProvider ==
  /\ impl \in {1, 2}
  /\ repo = TwoBranchRepo
  /\ defaultBranches = <<DevelopmentBranch, QualityBranch, ProductionBranch>>
  /\ pc = "list"
  /\ currentPage = 1
  /\ allBranches = <<>>
  /\ filteredBranches = <<>>
  /\ br = <<>>
  /\ pair = <<>>
  /\ output = <<>>
  /\ previous = NoPrevious
  /\ lastRepoData \in SavedRepoData
  /\ repository = RestoredRepository(lastRepoData)
  /\ branches = <<>>
  /\ loading = FALSE
  /\ error = ""
  /\ calls = <<>>
  /\ settled = NoCall
  /\ started = 0
  /\ deleted = {}
  /\ bulk = NoBulk
  /\ argName = <<>>
  /\ resultType = ""
  /\ resultLower = ""

NextProvider ==
  \/ \E url \in Urls, token \in Tokens : connectRepository(url, token, defaultBranches)
  \/ \E c \in DOMAIN calls : ConnectStatsResponse(c)
  \/ \E c \in DOMAIN calls : ConnectBranchesResponse(c)
  \/ \E url \in Urls, token \in Tokens : connectRepository2(url, token, defaultBranches)
  \/ \E c \in DOMAIN calls : ConnectRepoResponse2(c)
  \/ \E c \in DOMAIN calls : ConnectBranchesResponse2(c)
  \/ fetchBranches
  \/ \E c \in DOMAIN calls : FetchStatsResponse(c)
  \/ \E c \in DOMAIN calls : FetchBranchesResponse(c)
  \/ fetchBranches2
  \/ \E c \in DOMAIN calls : FetchBranchesResponse2(c)
  \/ updateDefaultBranches(OtherNames)
  \/ updateDefaultBranches2(OtherNames)
  \/ \E b \in Range(branches) : deleteBranch(b.name)
  \/ \E c \in DOMAIN calls : DeleteResponse(c)
  \/ disconnectRepository

SpecProvider == InitProvider /\ [][NextProvider]_vars

\* ------------------------------------------------- selection, BulkActions
\* toggleBranchSelection(branchId), called from the current render
toggleBranchSelection(branchId) ==
  /\ branches' = [i \in DOMAIN branches |->
                    IF branches[i].id = branchId
                    THEN [branches[i] EXCEPT !.selected = ~branches[i].selected]
                    ELSE branches[i]]
  /\ UNCHANGED <<repository, loading, error, lastRepoData, calls, settled, started,
                  deleted, bulk>>
  /\ BulkFrame

areAllBranchesSelected ==
  Len(branches) > 0 /\ \A i \in DOMAIN branches : branches[i].selected

toggleAllBranchSelection ==
  /\ branches' = [i \in DOMAIN branches |->
                    [branches[i] EXCEPT !.selected = ~areAllBranchesSelected]]
  /\ UNCHANGED <<repository, loading, error, lastRepoData, calls, settled, started,
                  deleted, bulk>>
  /\ BulkFrame

\* branches.filter(branch => branch.selected)
selectedBranches == SelectSeq(branches, LAMBDA b : b.selected)

\* the loop of handleBulkDeleteConfirm has moved on: when no selected branch is
\* left, the toasts are shown
AfterLoop(b) ==
  IF b.i <= Len(b.selected) THEN b
  ELSE [b EXCEPT !.pc = "done",
                 !.reported = IF b.failedBranches = <<>> THEN Len(b.selected)
                              ELSE b.successCount]

\* handleBulkDeleteConfirm up to its loop: the loop runs over the
\* selectedBranches of this render and calls the deleteBranch of this render
handleBulkDeleteConfirm ==
  /\ bulk.pc \in {"idle", "done"}
  /\ selectedBranches # <<>>
  /\ UserCall
  /\ bulk' = [NoBulk EXCEPT !.pc = "loop",
                            !.selected = [i \in DOMAIN selectedBranches |->
                                            selectedBranches[i].name],
                            !.i = 1,
                            !.repo = repository,
                            !.branches = branches]
  /\ UNCHANGED <<repository, branches, loading, error, lastRepoData, calls, settled,
                  deleted>>
  /\ BulkFrame

\* await deleteBranch(branch.name) of the loop, up to the await of the DELETE
\* request; without a token deleteBranch sets the error and returns, and the
\* loop counts a success
BulkDeleteBranch ==
  /\ bulk.pc = "loop"
  /\ UNCHANGED started
  /\ IF ~bulk.repo.present \/ bulk.repo.token = ""
     THEN /\ error' = "Repository token is required to delete branches"
          /\ bulk' = AfterLoop([bulk EXCEPT !.successCount = @ + 1, !.i = @ + 1])
          /\ UNCHANGED <<calls, settled>>
     ELSE /\ Start(Call("deleteBranch", "delete", bulk.repo, bulk.selected[bulk.i],
                        bulk.branches))
          /\ bulk' = [bulk EXCEPT !.pc = "await", !.issued = @ \cup {bulk.selected[bulk.i]}]
          /\ UNCHANGED error
  /\ UNCHANGED <<repository, branches, loading, lastRepoData, deleted>>
  /\ BulkFrame

\* answer to the DELETE request of the loop: deleteBranch resolves or rejects,
\* the loop counts a success or notes the branch as failed, and goes on
BulkDeleteResponse(c) ==
  /\ bulk.pc = "await"
  /\ calls[c].op = "deleteBranch"
  /\ calls[c].pc = "delete"
  /\ UNCHANGED started
  /\ \E ok \in {FALSE} \cup {x \in {TRUE} : /\ calls[c].repo.owner = Acme
                                             /\ calls[c].repo.name = App
                                             /\ calls[c].branchName \notin deleted} :
       IF ok
       THEN /\ deleted' = deleted \cup {calls[c].branchName}
            /\ branches' = WithoutBranch(calls[c].branches, calls[c].branchName)
            /\ Settle(c, "resolved")
            /\ bulk' = AfterLoop([bulk EXCEPT !.pc = "loop",
                                             !.successCount = @ + 1,
                                             !.succeeded = @ \cup {calls[c].branchName},
                                             !.i = @ + 1])
       ELSE /\ Settle(c, DeleteFailure)
            /\ bulk' = AfterLoop([bulk EXCEPT !.pc = "loop",
                                             !.failedBranches = Append(@, calls[c].branchName),
                                             !.i = @ + 1])
            /\ UNCHANGED <<branches, deleted>>
  /\ UNCHANGED <<repository, loading, error, lastRepoData>>
  /\ BulkFrame

\* the handle of a connected repository
Connected(token) ==
  Repository(IF impl = 1 THEN UrlRepository ELSE HtmlUrl, "github", Acme, App, TRUE, token,
             <<DevelopmentBranch, QualityBranch, ProductionBranch>>)

\* the provider after a connectRepository call has fetched the branches
InitSelection ==
  /\ impl \in {1, 2}
  /\ repo = TwoBranchRepo
  /\ defaultBranches = <<DevelopmentBranch, QualityBranch, ProductionBranch>>
  /\ pc = "list"
  /\ currentPage = 1
  /\ allBranches = <<>>
  /\ filteredBranches = <<>>
  /\ br = <<>>
  /\ pair = <<>>
  /\ output = <<>>
  /\ previous = NoPrevious
  /\ \E token \in Tokens :
       /\ repository = Connected(token)
       /\ lastRepoData = RepoData(repository.url, token, repository.defaultBranches)
  /\ deleted = {}
  /\ \E r \in Reconciled(repository) : r.ok /\ branches = r.branches
  /\ loading = FALSE
  /\ error = ""
  /\ calls = <<>>
  /\ settled = NoCall
  /\ started = 1
  /\ bulk = NoBulk
  /\ argName = <<>>
  /\ resultType = ""
  /\ resultLower = ""

NextSelection ==
  \/ \E b \in Range(branches) : toggleBranchSelection(b.id)
  \/ toggleAllBranchSelection
  \/ handleBulkDeleteConfirm
  \/ BulkDeleteBranch
  \/ \E c \in DOMAIN calls : BulkDeleteResponse(c)
  \/ fetchBranches
  \/ \E c \in DOMAIN calls : FetchStatsResponse(c)
  \/ \E c \in DOMAIN calls : FetchBranchesResponse(c)
  \/ fetchBranches2
  \/ \E c \in DOMAIN calls : FetchBranchesResponse2(c)

SpecSelection == InitSelection /\ [][NextSelection]_vars

\* =================================================================== claims
Records == Range(output)

\* reconcile failed although the enumeration had succeeded
EnumerationFailed == pc = "failed" /\ br = <<>>

\* C1: every BranchRecord returned by fetchGitHubBranches has exactly 3 status
\* entries, one per configured target, whether or not the targets exist and
\* whichever provider calls of its pairs failed.
C1_ThreeStatuses ==
  pc = "returned" => \A r \in Records : Len(r.status) = 3

\* C2: a failing provider call of one (branch, target) pair never makes
\* reconcile fail and leaves the task (and so the status) of every other pair
\* untouched; the statuses reconcile returns are the ones the pairs computed.
C2_PairFailureIsolated ==
  [][ /\ \A p \in DOMAIN pair :
           pair'[p].failed # pair[p].failed =>
             /\ pc' = "failed" => pc = "failed"
             /\ pair'[p].pc \in {"done", "branchSha"}
             /\ \A q \in DOMAIN pair \ {p} : pair'[q] = pair[q]
      /\ (pc' = "returned" /\ pc # "returned") =>
           \A k \in DOMAIN filteredBranches :
             \E r \in Range(output') :
               /\ r.name = filteredBranches[k]
               /\ DOMAIN r.status = { p[2] : p \in PairsOf(k, pair') }
               /\ \A i \in DOMAIN r.status : r.status[i] = pair'[<<k, i>>].result
    ]_vars

\* C2 witness: reconcile returned although the forward compare of one pair
\* failed; another pair of the same branch has its status and a pair of another
\* branch was found merged.
C2_Witness ==
  /\ pc = "returned"
  /\ \E p \in DOMAIN pair :
       /\ "compare" \in pair[p].failed
       /\ \E q \in DOMAIN pair : q[1] = p[1] /\ q # p /\ pair[q].pc = "done"
       /\ \E q \in DOMAIN pair : q[1] # p[1] /\ pair[q].result.isMerged

\* { isMerged: false, commitsAhead: 0, commitsBehind: 0 }
UnmergedZero(st) == ~st.isMerged /\ st.commitsAhead = 0 /\ st.commitsBehind = 0

\* { isMerged: true, commitsAhead: 0, commitsBehind: 0 }
MergedZero(st) == st.isMerged /\ st.commitsAhead = 0 /\ st.commitsBehind = 0

\* calls of the comparator cascade after the existence check
CascadeCalls == {"compare", "reverseCompare", "branchSha", "targetSha", "commits",
                 "featureCommits"}

\* C3: if a configured target does not exist in the repository, every record
\* carries for it the status {isMerged: false, commitsAhead: 0, commitsBehind: 0}
\* and no compare or fallback call is issued for that pair.
C3_MissingTarget ==
  /\ \A p \in DOMAIN pair :
       TargetOf(p) \notin DOMAIN repo.tip =>
         Range(pair[p].calls) \cap CascadeCalls = {}
  /\ pc = "returned" =>
       \A r \in Records : \A i \in 1..3 :
         defaultBranches[i] \notin DOMAIN repo.tip =>
           \E j \in DOMAIN r.status :
             /\ r.status[j].target = defaultBranches[i]
             /\ UnmergedZero(r.status[j])

\* the qualifying branches among the enumerated ones
QualifyingEnumerated == { n \in Range(allBranches) : Qualifying(n) }

\* C4: whenever reconcile returns, the branch names of its output are exactly
\* the enumerated branches classified feature, bugfix or hotfix, each once.
C4_OutputIsQualifying ==
  pc = "returned" =>
    /\ { r.name : r \in Records } = QualifyingEnumerated
    /\ Len(output) = Cardinality(QualifyingEnumerated)
    /\ \A r \in Records : r.type \in {"feature", "bugfix", "hotfix"}

\* C4 witness: reconcile returned two records from a listing that also holds
\* branches classified other.
C4_Witness ==
  /\ pc = "returned"
  /\ Len(output) = 2
  /\ \E n \in Range(allBranches) : getBranchType(n) = "other"

\* the forward compare of the pair was answered
ForwardAnswered(t) == t.fwd.http = 200

\* C5: if the forward compare of a pair succeeds and reports status identical,
\* the pair's isMerged is true, whatever ahead_by and behind_by it reports.
C5_IdenticalIsMerged ==
  \A p \in DOMAIN pair :
    (pair[p].pc = "done" /\ ForwardAnswered(pair[p]) /\ pair[p].fwd.status = "identical")
      => pair[p].result.isMerged

\* the decision rule of the specification
RuleMerged(compareData) ==
  \/ (compareData.ahead_by = 0 /\ compareData.status # "diverged")
  \/ compareData.status = "identical"

\* C6: target exists, forward compare answered, no merge established by the
\* reverse compare: isMerged follows the decision rule and the counts are the
\* reported ones.
C6_ForwardVerdict ==
  \A p \in DOMAIN pair :
    ( /\ pair[p].pc = "done"
      /\ TargetOf(p) \in DOMAIN repo.tip
      /\ ForwardAnswered(pair[p])
      /\ ~(pair[p].rev.status = "ahead" /\ pair[p].rev.ahead_by > 0) )
    => /\ pair[p].result.isMerged = RuleMerged(pair[p].fwd)
       /\ pair[p].result.commitsAhead = pair[p].fwd.ahead_by
       /\ pair[p].result.commitsBehind = pair[p].fwd.behind_by

\* C7: forward compare answered with behind_by = 0 without a merge, reverse
\* compare answered ahead with ahead_by > 0: the result is merged, 0 ahead,
\* 0 behind, with lastMergeDate stamped, whatever ahead_by the forward reported.
C7_ReverseTieBreak ==
  \A p \in DOMAIN pair :
    ( /\ pair[p].pc = "done"
      /\ ForwardAnswered(pair[p])
      /\ pair[p].fwd.behind_by = 0
      /\ pair[p].rev.status = "ahead"
      /\ pair[p].rev.ahead_by > 0 )
    => MergedZero(pair[p].result) /\ pair[p].result.lastMergeDate = Now

\* C7 witness: forward {ahead_by MaxAhead, behind_by 0, diverged}, reverse
\* {ahead, MaxReverseAhead}, and the pair is merged.
C7_Witness ==
  \E p \in DOMAIN pair :
    /\ pair[p].pc = "done"
    /\ pair[p].fwd.ahead_by = MaxAhead /\ pair[p].fwd.behind_by = 0
    /\ pair[p].fwd.status = "diverged"
    /\ pair[p].rev.status = "ahead" /\ pair[p].rev.ahead_by = MaxReverseAhead
    /\ pair[p].result.isMerged

\* the fallback of the pair ran to its end with no call of its own failing
FallbackAnswered(t) ==
  t.pc = "done" /\ t.failed = {"compare"} /\ "targetSha" \in Range(t.calls)

SameTip(p) == repo.tip[BranchOf(p)] = repo.tip[TargetOf(p)]
TipInHistory(p) == repo.tip[BranchOf(p)] \in repo.history[TargetOf(p)]

\* C8: forward compare failed, target exists, and the fallback finds the tip
\* SHAs identical or the source tip on the target's first history page: the
\* result is merged, 0 ahead, 0 behind, and reconcile does not fail for it.
C8_FallbackMerged ==
  \A p \in DOMAIN pair :
    (FallbackAnswered(pair[p]) /\ (SameTip(p) \/ TipInHistory(p)))
      => /\ MergedZero(pair[p].result)
         /\ pc = "failed" => \E k \in DOMAIN br : br[k].pc = "failed"

\* C8 witness: one pair merged by identical tips and one by the history page.
C8_Witness ==
  /\ pc = "returned"
  /\ \E p \in DOMAIN pair :
       FallbackAnswered(pair[p]) /\ SameTip(p) /\ pair[p].result.isMerged
  /\ \E p \in DOMAIN pair :
       /\ FallbackAnswered(pair[p]) /\ ~SameTip(p) /\ TipInHistory(p)
       /\ "commits" \in Range(pair[p].calls)
       /\ pair[p].result.isMerged

\* a call of the fallback itself failed
FallbackFailed(t) ==
  t.pc = "done" /\ "compare" \in t.failed
  /\ t.failed \cap {"branchSha", "targetSha", "commits"} # {}

\* the fallback read the history page and the source tip is not on it
FallbackNotFound(p) ==
  FallbackAnswered(pair[p]) /\ ~SameTip(p) /\ ~TipInHistory(p)

\* C9 as stated: forward compare failed and the fallback failed or did not find
\* the source tip: isMerged false, 0 ahead, 0 behind.
C9_FallbackUnmergedZero ==
  \A p \in DOMAIN pair :
    (FallbackFailed(pair[p]) \/ FallbackNotFound(p)) => UnmergedZero(pair[p].result)

\* C9 as amended: a failed fallback call gives isMerged false, 0 ahead, 0 behind;
\* a source tip not found on the history page gives isMerged false, 0 ahead and
\* the estimate of 1 commit behind.
C9_FallbackUnmerged ==
  \A p \in DOMAIN pair :
    /\ FallbackFailed(pair[p]) => UnmergedZero(pair[p].result)
    /\ FallbackNotFound(p) =>
         /\ ~pair[p].result.isMerged
         /\ pair[p].result.commitsAhead = 0
         /\ pair[p].result.commitsBehind = 1
         /\ pair[p].result.lastMergeDate = 0

\* C9 witness: one pair whose fallback failed and one whose fallback did not
\* find the tip.
C9_Witness ==
  /\ \E p \in DOMAIN pair : FallbackFailed(pair[p])
  /\ \E p \in DOMAIN pair : FallbackNotFound(p) /\ pair[p].result.commitsBehind = 1

\* C10: only an enumeration failure makes reconcile fail; a branch whose
\* tip-commit call failed is in the output with author Unknown and lastUpdated
\* set to the current time.
C10_CommitFailureDegrades ==
  /\ pc = "failed" => EnumerationFailed
  /\ pc = "returned" =>
       \A k \in DOMAIN br :
         br[k].pc = "failed" =>
           \E r \in Records :
             r.name = filteredBranches[k] /\ r.author = "Unknown" /\ r.lastUpdated = Now

\* the listing request failed: reconcile failed before any branch task started
ListingFailed == pc = "failed" /\ br = <<>>

\* what the listing requests of the running definition return when none fails:
\* every page (first definition), the single page asked for (second definition)
FullListing == IF impl = 1 THEN Flatten(repo.pages) ELSE repo.pages[1]

\* C11: enumeration is all-or-nothing.  When a listing page request fails,
\* reconcile fails, returns no record (not even for the pages already fetched)
\* and no commit or compare call is issued; branch tasks start, and records are
\* returned, only from a listing none of whose requests failed.
C11_ListingAllOrNothing ==
  /\ ListingFailed => (output = <<>> /\ filteredBranches = <<>> /\ DOMAIN pair = {})
  /\ (br # <<>> \/ pc = "returned") => allBranches = FullListing

\* C11 witness: the request of the second page failed after the first page,
\* which holds qualifying branches, had been fetched.
C11_Witness ==
  /\ ListingFailed
  /\ currentPage = 2
  /\ \E n \in Range(allBranches) : Qualifying(n)

\* the pages answered so far while the enumeration is running
PagesAnswered == Flatten(SubSeq(repo.pages, 1, currentPage - 1))

\* C12: enumeration follows the pagination: while it runs, the branches
\* gathered are those of pages 1..currentPage-1 in order; when it has ended the
\* enumerated branches are those of every page of the listing, and a returned
\* output holds every qualifying branch of every page.
C12_FollowsPagination ==
  /\ pc = "list" => allBranches = PagesAnswered
  /\ (br # <<>> \/ pc = "returned") => allBranches = Flatten(repo.pages)
  /\ pc = "returned" =>
       \A n \in Range(Flatten(repo.pages)) :
         Qualifying(n) => \E r \in Records : r.name = n

\* C13: in every returned record, statuses[i] is the result of the pair task
\* run against the i-th configured target name exactly as configured, and its
\* target field is that name (i = 1..3: development, quality, production).
C13_TargetsAsConfigured ==
  /\ \A p \in DOMAIN pair : TargetOf(p) = defaultBranches[p[2]]
  /\ pc = "returned" =>
       \A r \in Records : \A i \in 1..3 :
         i \in DOMAIN r.status /\ r.status[i].target = defaultBranches[i]

\* C14: a returned output is ordered by lastUpdated descending, and it exists
\* only once every branch task and every pair task has completed.
C14_SortedAfterJoin ==
  /\ pc # "returned" => output = <<>>
  /\ pc = "returned" =>
       /\ \A i \in 1..(Len(output) - 1) :
            output[i].lastUpdated >= output[i + 1].lastUpdated
       /\ Len(output) = Len(br)
       /\ \A k \in DOMAIN br : br[k].pc = "done"
       /\ \A p \in DOMAIN pair : pair[p].pc = "done"

\* C14 witness: two records returned, the more recently updated branch first
\* although it was listed second.
C14_Witness ==
  /\ pc = "returned"
  /\ Len(output) = 2
  /\ output[1].name = filteredBranches[2]
  /\ output[1].lastUpdated > output[2].lastUpdated

\* C15: when a second call on the same handle, answered by the provider as the
\* first was, returns, its output has the branch names of the first call's
\* output and, for every branch and target, the same category and the same
\* isMerged (the responses may arrive in another order, time has passed).
C15_Idempotent ==
  (previous.done /\ pc = "returned") =>
    /\ { r.name : r \in Records } = { q.name : q \in Range(previous.output) }
    /\ \A r \in Records : \A q \in Range(previous.output) :
         r.name = q.name =>
           /\ r.type = q.type
           /\ DOMAIN r.status = DOMAIN q.status
           /\ \A i \in DOMAIN r.status :
                /\ r.status[i].target = q.status[i].target
                /\ r.status[i].isMerged = q.status[i].isMerged

\* C15 witness: the second call returned two records, one of them merged into
\* a target with a merge date stamped later than in the first call.
C15_Witness ==
  /\ previous.done
  /\ pc = "returned"
  /\ Len(output) = 2
  /\ \E r \in Records : \E q \in Range(previous.output) : \E i \in DOMAIN r.status :
       /\ r.name = q.name
       /\ r.status[i].isMerged
       /\ r.status[i].lastMergeDate > q.status[i].lastMergeDate

\* a deleteBranch call settles in this step
DeleteSettles == Len(calls') < Len(calls) /\ settled'.op = "deleteBranch"

\* C16: when the provider's delete call fails, deleteBranch rejects and the
\* branches list stays as it is; when it succeeds, deleteBranch resolves and the
\* list is the list of that moment without the named branch, every other
\* record as it was.
C16_DeleteOutcome ==
  [][ DeleteSettles =>
        IF deleted' = deleted
        THEN settled'.pc = "rejected" /\ branches' = branches
        ELSE /\ settled'.pc = "resolved"
             /\ branches' = WithoutBranch(branches, settled'.branchName)
    ]_vars

\* the handle has no owner or no name
Invalid(handle) == handle.owner = <<>> \/ handle.name = <<>>

\* C17: fetchGitHubBranches, which issues the listing, commit and compare
\* calls, is never called for a handle without owner or name; a fetchBranches
\* call on such a handle (a restored one included) ends with an error set.
C17_InvalidHandleRejected ==
  /\ [](\A c \in Range(calls) \cup {settled} : c.reconciled => ~Invalid(c.repo))
  /\ [][ (settled' # settled /\ settled'.op = "fetchBranches" /\ Invalid(settled'.repo))
           => error' # "" ]_vars

\* the classification rule: prefixes of the lower-cased name
ClassRule(n) ==
  LET lower == toLowerCase(n) IN
  IF \E prefix \in { <<"f","e","a","t","u","r","e","/">>, <<"f","e","a","t","/">>,
                      <<"f","e","a","t","u","r","e","s","/">> } : startsWith(lower, prefix)
  THEN "feature"
  ELSE IF \E prefix \in { <<"b","u","g","f","i","x","/">>, <<"b","u","g","/">>,
                           <<"f","i","x","/">> } : startsWith(lower, prefix)
  THEN "bugfix"
  ELSE IF startsWith(lower, <<"h","o","t","f","i","x","/">>)
  THEN "hotfix"
  ELSE "other"

\* C18: getBranchType returns feature, bugfix or hotfix according to the
\* prefix of the lower-cased name and other in every remaining case; so
\* BUGFIX/crash-123 is bugfix and release/2.0 is other.
C18_ClassifyByLowerCasedPrefix ==
  resultType # "" =>
    /\ resultType = ClassRule(argName)
    /\ argName = BugfixCrash => resultType = "bugfix"
    /\ argName = Release20 => resultType = "other"

\* C18 witness: a name in mixed case that no exact-case check matches was
\* classified by its lower-cased prefix.
C18_Witness ==
  /\ argName = <<"F","e","A","t","/","x">>
  /\ resultType = "feature"

\* the calls of the SHA-ancestry fallback
FallbackCalls == {"branchSha", "targetSha", "commits"}

\* the positions of call in the calls a pair task issued
IssuedAt(t, call) == { i \in DOMAIN t.calls : t.calls[i] = call }

\* C19: the fallback calls (tip SHA of source and of target, history page of
\* the target) are issued for a pair only after the pair's forward compare
\* failed, never when the forward compare was answered.
C19_FallbackOnlyAfterCompareFailed ==
  \A p \in DOMAIN pair :
    \A call \in FallbackCalls : \A i \in IssuedAt(pair[p], call) :
      /\ "compare" \in pair[p].failed
      /\ ~ForwardAnswered(pair[p])
      /\ pair[p].fwd = NoCompare
      /\ \E j \in IssuedAt(pair[p], "compare") : j < i

\* C19 witness: a pair whose forward compare failed issued all three fallback
\* calls, while another pair's forward compare was answered.
C19_Witness ==
  /\ \E p \in DOMAIN pair :
       /\ "compare" \in pair[p].failed
       /\ FallbackCalls \subseteq Range(pair[p].calls)
  /\ \E p \in DOMAIN pair :
       /\ ForwardAnswered(pair[p])
       /\ ~pair[p].result.isMerged
       /\ pair[p].pc = "done"

\* C20: the reverse compare is issued for a pair only after its forward
\* compare was answered without establishing a merge and with behind_by = 0;
\* never after a forward compare that established a merge or failed, never for
\* a missing target; and at most once per pair.
C20_ReverseCompareOnlyOnTie ==
  \A p \in DOMAIN pair :
    /\ Cardinality(IssuedAt(pair[p], "reverseCompare")) <= 1
    /\ \A i \in IssuedAt(pair[p], "reverseCompare") :
         /\ TargetOf(p) \in DOMAIN repo.tip
         /\ "compare" \notin pair[p].failed
         /\ ForwardAnswered(pair[p])
         /\ ~RuleMerged(pair[p].fwd)
         /\ pair[p].fwd.behind_by = 0
         /\ \E j \in IssuedAt(pair[p], "compare") : j < i

\* lastMergeDate is present in the status
HasMergeDate(st) == st.lastMergeDate # 0

\* C21: in every status of every returned record, and in every status a pair
\* task returned, lastMergeDate is present if and only if isMerged is true.
C21_MergeDateIffMerged ==
  /\ \A p \in DOMAIN pair :
       pair[p].pc = "done" => (HasMergeDate(pair[p].result) <=> pair[p].result.isMerged)
  /\ pc = "returned" =>
       \A r \in Records : \A j \in DOMAIN r.status :
         HasMergeDate(r.status[j]) <=> r.status[j].isMerged

\* C21 witness: a returned record carries a status merged by the reverse
\* compare with its date, next to a status of a missing target without one.
C21_Witness ==
  /\ pc = "returned"
  /\ \E r \in Records : \E i, j \in DOMAIN r.status :
       /\ r.status[i].isMerged /\ r.status[i].lastMergeDate = Now
       /\ ~r.status[j].isMerged /\ r.status[j].lastMergeDate = 0
  /\ \E p \in DOMAIN pair : pair[p].rev.http = 200 /\ pair[p].result.isMerged
  /\ \E p \in DOMAIN pair : "exists" \in pair[p].failed

\* the status without its date
Verdict(st) ==
  [target |-> st.target, isMerged |-> st.isMerged,
   commitsBehind |-> st.commitsBehind, commitsAhead |-> st.commitsAhead]

\* the record without its dates
Undated(r) ==
  [name |-> r.name, type |-> r.type, author |-> r.author,
   status |-> [i \in DOMAIN r.status |-> Verdict(r.status[i])]]

\* C22: for fixed provider answers the returned collection (its records, their
\* status sequences and their order) is the same under every order in which
\* the concurrent branch and pair calls complete: a call answered as the
\* previous one was returns the same records in the same order.
C22_OrderOfCompletionIrrelevant ==
  (previous.done /\ pc = "returned") =>
    /\ Len(output) = Len(previous.output)
    /\ \A i \in DOMAIN output : Undated(output[i]) = Undated(previous.output[i])

\* a fetchBranches call completes successfully in this step
FetchSucceeds ==
  /\ Len(calls') < Len(calls)
  /\ settled'.op = "fetchBranches"
  /\ settled'.pc = "resolved"

\* C23: when a fetchBranches call completes successfully, the branches state
\* is exactly the output of its reconciliation pass: no record of the previous
\* pass survives, no selected flag is carried over, no branch is selected.
C23_FetchReplacesBranches ==
  [][ FetchSucceeds =>
        /\ \E r \in Reconciled(settled'.repo) : r.ok /\ branches' = r.branches
        /\ \A i \in DOMAIN branches' : ~branches'[i].selected
        /\ \A i \in DOMAIN branches' : branches'[i].name \notin deleted
    ]_vars

\* C23 witness: a fetchBranches call that was started with two records, one
\* of them selected, completed after a branch had been deleted: one record is
\* left and it is not selected.
C23_Witness ==
  /\ settled.op = "fetchBranches"
  /\ settled.pc = "resolved"
  /\ calls = <<>>
  /\ Len(settled.branches) = 2
  /\ \E i \in DOMAIN settled.branches : settled.branches[i].selected
  /\ deleted # {}
  /\ Len(branches) = 1
  /\ ~branches[1].selected

\* the fetchBranches call that an updateDefaultBranches call made completes
\* successfully in this step
UpdateCompletes ==
  /\ FetchSucceeds
  /\ settled'.newDefaultBranches # <<>>
  /\ settled'.repo.isConnected

\* C24: once the reconciliation that updateDefaultBranches(new names) triggers
\* on a connected repository has completed, repository.defaultBranches is the
\* new names and every status in branches was computed against them.
C24_UpdateUsesNewNames ==
  [][ UpdateCompletes =>
        /\ repository'.defaultBranches = settled'.newDefaultBranches
        /\ \E r \in Reconciled([settled'.repo EXCEPT
                                   !.defaultBranches = settled'.newDefaultBranches]) :
             r.ok /\ branches' = r.branches
    ]_vars

\* the bulk delete has ended and every DELETE request it sent succeeded
BulkAllSucceeded ==
  /\ bulk.pc = "done"
  /\ Len(bulk.selected) >= 2
  /\ bulk.succeeded = Range(bulk.selected)

\* C25: after a bulk delete of k >= 2 selected branches in which every
\* provider delete call succeeded, none of the deleted branches is in the
\* branches list and every branch that was not selected still is.
C25_BulkDeleteRemovesAll ==
  BulkAllSucceeded =>
    /\ \A b \in Range(branches) : b.name \notin Range(bulk.selected)
    /\ \A b \in Range(bulk.branches) :
         b.name \notin Range(bulk.selected) => \E x \in Range(branches) : x.name = b.name

\* the selected branches for which a DELETE request was sent and succeeded
DeletedByBulk == bulk.issued \cap bulk.succeeded

\* C26: the number of branches a bulk delete reports as deleted is the number
\* of selected branches for which a provider delete call was issued and
\* succeeded; a branch without a call or with a failed call is not counted;
\* a failure on one branch does not stop the deletion of the others.
C26_BulkDeleteCount ==
  bulk.pc = "done" =>
    /\ bulk.reported = Cardinality(DeletedByBulk)
    /\ bulk.successCount = Cardinality(DeletedByBulk)
    /\ bulk.i = Len(bulk.selected) + 1

\* Two fetchBranches calls overlapped, the one started last has completed
\* successfully, and this step completes the other one successfully.  (calls
\* is kept in start order and only a settling call changes settled: the one
\* call left in flight is the call that was ahead of the settled one.)
OvertakenFetchCompletes ==
  /\ Len(calls) = 1
  /\ calls[1].op = "fetchBranches"
  /\ settled.op = "fetchBranches"
  /\ settled.pc = "resolved"
  /\ settled.ahead = 1
  /\ calls' = <<>>
  /\ settled'.pc = "resolved"

\* C27: when two fetchBranches calls overlap, then once both have completed
\* the branches state holds the result of the call that was started last,
\* whichever of the two completed last.
C27_LastStartedWins ==
  [][ OvertakenFetchCompletes =>
        \E r \in Reconciled(settled.repo) : r.ok /\ branches' = r.branches
    ]_vars

\* a call settles in this step that was in flight when disconnectRepository
\* was called, and no connectRepository or fetchBranches call was started
\* since
SettlesAfterDisconnect ==
  /\ Len(calls') < Len(calls)
  /\ settled'.disconnected

\* disconnectRepository is called in this step
Disconnects == started' = started + 1 /\ \A i \in DOMAIN calls' : calls'[i].disconnected

\* C28: disconnectRepository empties the branches list, and a reconciliation
\* that was in flight at that moment does not repopulate the list when it
\* completes before a new connectRepository or fetchBranches call is started.
C28_DisconnectKeepsEmpty ==
  [][ /\ (Disconnects /\ calls' # calls) => branches' = <<>>
      /\ SettlesAfterDisconnect => branches' = <<>>
    ]_vars

\* the reverse compare of the pair failed
ReverseFailed(t) == "reverseCompare" \in t.failed

\* C29: if the reverse compare of a pair fails, the failure is swallowed and
\* the pair's result is the forward compare's own outcome: isMerged false,
\* commitsAhead and commitsBehind as the forward compare reported them; the
\* SHA fallback is not attempted.
C29_ReverseFailureSwallowed ==
  /\ \A p \in DOMAIN pair :
       ReverseFailed(pair[p]) =>
         /\ pair[p].pc = "done"
         /\ ~pair[p].result.isMerged
         /\ ~HasMergeDate(pair[p].result)
         /\ pair[p].result.commitsAhead = pair[p].fwd.ahead_by
         /\ pair[p].result.commitsBehind = pair[p].fwd.behind_by
         /\ Range(pair[p].calls) \cap FallbackCalls = {}
  /\ pc = "failed" => (EnumerationFailed \/ \E k \in DOMAIN br : br[k].pc = "failed")

\* C29 witness: reconcile returned a record whose status comes from a forward
\* compare reporting commits ahead, the reverse compare having failed.
C29_Witness ==
  /\ pc = "returned"
  /\ \E p \in DOMAIN pair :
       /\ ReverseFailed(pair[p])
       /\ pair[p].fwd.ahead_by = MaxAhead
       /\ pair[p].result.commitsAhead = MaxAhead
       /\ \E r \in Records : \E j \in DOMAIN r.status : r.status[j] = pair[p].result

\* C30: classification is case-insensitive: getBranchType gives a name the
\* type it gives the lower-cased name; the exact-case prefix checks never
\* change what the lower-cased checks give.
C30_ClassifyCaseInsensitive ==
  (resultType # "" /\ resultLower # "") => resultType = resultLower

\* C30 witness: a name with an upper-case prefix that has an exact-case check
\* and the lower-cased name were both classified, as hotfix.
C30_Witness ==
  /\ argName = <<"H","O","T","F","I","X","/","a","/","B">>
  /\ resultType = "hotfix"
  /\ resultLower = "hotfix"

====
